---- MODULE Spec2Model ----
(***************************************************************************)
(* A model of the Memos MCP server: the stdio transport loop               *)
(* (SimpleMCPServer.run_stdio), the JSON-RPC dispatcher (_handle_message), *)
(* the tool and resource handlers, the response normalizer and the HTTP    *)
(* client (MemosClient), translated from src/memos_mcp.                    *)
(*                                                                         *)
(* Values.  A JSON / Python value that comes from outside (a request line, *)
(* an upstream body) is a tagged record: None, S(tokens) a str, I(n) an    *)
(* int, L(seq) a list, D(f) a dict whose f maps key strings to values.     *)
(* A str is a sequence of tokens; names, URIs and prefixes are spelled one *)
(* character per token, so that startswith, replace, strip and quote work  *)
(* on characters.  A dict or list that the code itself builds with fixed   *)
(* keys is a TLA+ record or sequence.  json.dumps(x) is J(x).              *)
(* An exception in flight is the value Raise(type, message, status).       *)
(***************************************************************************)
EXTENDS Integers, Sequences, FiniteSets, TLC

(***************************************************************************)
(* Bounds of the model.                                                    *)
(***************************************************************************)
\* the number of input lines the transport loop may consume in one run
MaxLines == 2
\* the length of the identifiers normalized, prefixes apart
MaxIdLen == 2
\* how many times in a row a function is applied to its own result
MaxApply == 2

(***************************************************************************)
(* Python values.                                                          *)
(***************************************************************************)
None == [t |-> "None"]
S(s) == [t |-> "str", s |-> s]
I(n) == [t |-> "int", n |-> n]
L(l) == [t |-> "list", l |-> l]
D(f) == [t |-> "dict", f |-> f]
J(doc) == [t |-> "json", doc |-> doc]
EmptyDict == D(<<>>)

Raise(exc, msg, status) == [t |-> "raise", exc |-> exc, msg |-> msg, status_code |-> status]
IsRaise(x) == "t" \in DOMAIN x /\ x.t = "raise"
IsDict(x) == x.t = "dict"

\* bool(x): Python truthiness
Truthy(x) ==
  CASE x.t = "None" -> FALSE
    [] x.t = "str" -> x.s # <<>>
    [] x.t = "int" -> x.n # 0
    [] x.t = "list" -> x.l # <<>>
    [] x.t = "dict" -> DOMAIN x.f # {}
    [] OTHER -> TRUE

\* a or b
Or(a, b) == IF Truthy(a) THEN a ELSE b

\* str(x) and f"{x}", as tokens
Str(x) ==
  CASE x.t = "None" -> <<"None">>
    [] x.t = "str" -> x.s
    [] x.t = "int" -> <<ToString(x.n)>>
    [] x.t = "list" -> <<"[...]">>
    [] x.t = "dict" -> <<"{...}">>
    [] x.t = "raise" -> x.msg
    [] OTHER -> <<"?">>

\* f"{x!r}": repr(x), as tokens
Repr(x) == IF x.t = "str" THEN <<"'">> \o x.s \o <<"'">> ELSE Str(x)

\* type(x).__name__
TypeName(x) ==
  CASE x.t = "None" -> "NoneType"
    [] x.t = "dict" -> "dict"
    [] OTHER -> x.t

\* the AttributeError of x.attr on a value that has no such attribute
NoAttribute(x, attr) == Raise("AttributeError", <<"'", TypeName(x), "' object has no attribute '", attr, "'">>, None)

\* a variant of Get: d.get(k), the default left out
Get_NoDefault(d, k, default) ==
  IF d.t # "dict" THEN Raise("AttributeError", <<"'", d.t, "' object has no attribute 'get'">>, None)
  ELSE IF k \in DOMAIN d.f THEN d.f[k] ELSE None

\* d.get(k, default)
Get(d, k, default) ==
  IF ~IsDict(d) THEN NoAttribute(d, "get")
  ELSE IF k \in DOMAIN d.f THEN d.f[k] ELSE default

\* a variant of Item: d.get(k) where the code writes d[k]
Item_Get(d, k) == IF ~IsDict(d) THEN NoAttribute(d, "get") ELSE IF k \in DOMAIN d.f THEN d.f[k] ELSE None

\* d[k]: KeyError on a dict without k, TypeError on anything that is no dict
Item(d, k) ==
  IF ~IsDict(d) THEN Raise("TypeError", <<TypeName(d), " indices must be integers or slices, not str">>, None)
  ELSE IF k \in DOMAIN d.f THEN d.f[k] ELSE Raise("KeyError", <<"'", k, "'">>, None)

(***************************************************************************)
(* str operations, on token sequences.                                     *)
(***************************************************************************)
StartsWith(s, p) == Len(s) >= Len(p) /\ SubSeq(s, 1, Len(p)) = p

\* s[n:]
DropFirst(s, n) == SubSeq(s, n + 1, Len(s))

RECURSIVE LStrip(_, _)
\* s.lstrip(chars)
LStrip(s, chars) == IF s # <<>> /\ Head(s) \in chars THEN LStrip(Tail(s), chars) ELSE s

RECURSIVE RStrip(_, _)
\* s.rstrip(chars)
RStrip(s, chars) == IF s # <<>> /\ s[Len(s)] \in chars THEN RStrip(SubSeq(s, 1, Len(s) - 1), chars) ELSE s

Whitespace == {" "}

\* s.strip()
Strip(s) == RStrip(LStrip(s, Whitespace), Whitespace)

RECURSIVE Remove(_, _)
\* s.replace(old, ""): every occurrence of old, left to right
Remove(s, old) ==
  IF s = <<>> THEN <<>>
  ELSE IF StartsWith(s, old) THEN Remove(DropFirst(s, Len(old)), old)
  ELSE <<Head(s)>> \o Remove(Tail(s), old)

\* a variant of QuoteChar: quote(c, safe="%")
QuoteChar_PercentSafe(c) ==
  CASE c = "/" -> <<"%", "2", "F">>
    [] c = " " -> <<"%", "2", "0">>
    [] c = ":" -> <<"%", "3", "A">>
    [] OTHER -> <<c>>

\* urllib.parse.quote(c, safe="") of one character: everything but letters,
\* digits and _ . - ~ is percent-encoded
QuoteChar(c) ==
  CASE c = "/" -> <<"%", "2", "F">>
    [] c = " " -> <<"%", "2", "0">>
    [] c = "%" -> <<"%", "2", "5">>
    [] c = ":" -> <<"%", "3", "A">>
    [] OTHER -> <<c>>

RECURSIVE Quote(_)
Quote(s) == IF s = <<>> THEN <<>> ELSE QuoteChar(Head(s)) \o Quote(Tail(s))

\* one character of query.replace("\\", "\\\\").replace('"', '\\"')
EscapeChar(c) ==
  CASE c = "\\" -> <<"\\", "\\">>
    [] c = "\"" -> <<"\\", "\"">>
    [] OTHER -> <<c>>

RECURSIVE Escape(_)
Escape(s) == IF s = <<>> THEN <<>> ELSE EscapeChar(Head(s)) \o Escape(Tail(s))

\* one character of urllib.parse.quote_plus, which urlencode applies to each value
QuotePlusChar(c) == IF c = " " THEN <<"+">> ELSE QuoteChar(c)

RECURSIVE QuotePlus(_)
QuotePlus(s) == IF s = <<>> THEN <<>> ELSE QuotePlusChar(Head(s)) \o QuotePlus(Tail(s))

(***************************************************************************)
(* utils/client.py: the HTTP client.                                       *)
(***************************************************************************)
MEMOS_NAME_PREFIX == <<"m", "e", "m", "o", "s", "/">>

RECURSIVE StripPrefix_Recursive(_)
\* a variant of StripPrefix: the prefix stripped as long as there is one
StripPrefix_Recursive(name) ==
  IF StartsWith(name, MEMOS_NAME_PREFIX)
  THEN StripPrefix_Recursive(LStrip(DropFirst(name, Len(MEMOS_NAME_PREFIX)), {"/"}))
  ELSE name

\* the prefix removal of _memo_path_segment: once, with the slashes after it
StripPrefix(name) ==
  IF StartsWith(name, MEMOS_NAME_PREFIX)
  THEN LStrip(DropFirst(name, Len(MEMOS_NAME_PREFIX)), {"/"})
  ELSE name

\* _memo_path_segment(memo_name): S(path segment), or the AttributeError of
\* .strip() on a truthy value that is no str
_memo_path_segment(memo_name) ==
  IF Or(memo_name, S(<<>>)).t # "str" THEN NoAttribute(memo_name, "strip")
  ELSE S(Quote(StripPrefix(Strip(Or(memo_name, S(<<>>)).s))))

NoRequest == [t |-> "no_request"]

\* What the upstream does with one HTTP request: a 2xx response whose body is
\* JSON (body) or is not, an HTTP error status whose body is UTF-8 text or is
\* not, a connection failure, or a timeout while the response is read.
Response(body) == [kind |-> "response", body |-> body]
NotJson == [kind |-> "not_json"]
HTTPError(code, utf8) == [kind |-> "HTTPError", code |-> code, utf8 |-> utf8]
URLError == [kind |-> "URLError"]
Timeout == [kind |-> "timeout"]

\* MemosAPIError(message, status_code)
MemosAPIError(msg, status) == Raise("MemosAPIError", msg, status)

\* the request _make_request sends: urlencode(params) when params is not
\* empty, json.dumps(data) when data is not empty
HttpRequest(method, endpoint, data, params) ==
  [t |-> "request", method |-> method, endpoint |-> endpoint,
   query |-> [k \in DOMAIN params |-> QuotePlus(params[k])],
   body |-> IF DOMAIN data # {} THEN J(data) ELSE None]

\* a variant of MakeRequestResult: every failure swallowed, {} returned
MakeRequestResult_Swallow(outcome) == IF outcome.kind = "response" THEN outcome.body ELSE EmptyDict

\* the outcome of urlopen / read / decode / json.loads in _make_request, and
\* of its except clauses; an exception raised inside the HTTPError clause
\* (decoding the error body) is not caught by the clauses after it
MakeRequestResult(outcome) ==
  CASE outcome.kind = "response" -> outcome.body
    [] outcome.kind = "HTTPError" ->
         IF outcome.utf8
         THEN MemosAPIError(<<"Memos API error: ", ToString(outcome.code), " - ", "<body>">>, I(outcome.code))
         ELSE Raise("UnicodeDecodeError", <<"'utf-8' codec can't decode byte">>, None)
    [] outcome.kind = "URLError" -> MemosAPIError(<<"Failed to connect to Memos: ", "<urlopen error>">>, None)
    [] outcome.kind = "not_json" -> MemosAPIError(<<"Unexpected error: ", "Expecting value">>, None)
    [] OTHER -> MemosAPIError(<<"Unexpected error: ", "timed out">>, None)

\* MemosClient._make_request: the request sent and what the call returns or raises
_make_request(method, endpoint, data, params, outcome) ==
  [req |-> HttpRequest(method, endpoint, data, params), ret |-> MakeRequestResult(outcome)]

\* a client operation that raises before any request is sent
NotSent(exc) == [req |-> NoRequest, ret |-> exc]

\* {k: v} when present, {} otherwise
Field(k, v, present) == IF present THEN k :> v ELSE <<>>

\* MemosClient.create_memo
create_memo(content, visibility, outcome) ==
  _make_request("POST", <<"/memos">>, [content |-> content, visibility |-> visibility], <<>>, outcome)

\* MemosClient.list_memos
list_memos(page, page_size, visibility, creator_id, row_status, tag, outcome) ==
  _make_request("GET", <<"/memos">>, <<>>,
                [page |-> Str(page), pageSize |-> Str(page_size)]
                @@ Field("visibility", Str(visibility), Truthy(visibility))
                @@ Field("creatorId", Str(creator_id), Truthy(creator_id))
                @@ Field("rowStatus", Str(row_status), Truthy(row_status))
                @@ Field("tag", Str(tag), Truthy(tag)),
                outcome)

\* the request to f"/memos/{path}", path the result of _memo_path_segment
MemoRequest(method, path, data, outcome) ==
  IF IsRaise(path) THEN NotSent(path)
  ELSE _make_request(method, <<"/memos/">> \o path.s, data, <<>>, outcome)

\* MemosClient.get_memo
get_memo(memo_name, outcome) == MemoRequest("GET", _memo_path_segment(memo_name), <<>>, outcome)

\* a variant of update_memo: all three fields sent, null for one left out
update_memo_Full(memo_name, content, visibility, row_status, outcome) ==
  MemoRequest("PATCH", _memo_path_segment(memo_name),
              [content |-> content, visibility |-> visibility, rowStatus |-> row_status],
              outcome)

\* MemosClient.update_memo
update_memo(memo_name, content, visibility, row_status, outcome) ==
  MemoRequest("PATCH", _memo_path_segment(memo_name),
              Field("content", content, content # None)
              @@ Field("visibility", visibility, visibility # None)
              @@ Field("rowStatus", row_status, row_status # None),
              outcome)

\* a variant of delete_memo that returns without sending anything
delete_memo_Unsent(memo_name, outcome) == NotSent(EmptyDict)

\* MemosClient.delete_memo
delete_memo(memo_name, outcome) == MemoRequest("DELETE", _memo_path_segment(memo_name), <<>>, outcome)

\* MemosClient.search_memos: page is accepted and not sent
search_memos(query, page, page_size, page_token, outcome) ==
  IF Or(query, S(<<>>)).t # "str" THEN NotSent(NoAttribute(query, "replace"))
  ELSE _make_request("GET", <<"/memos">>, <<>>,
                     [pageSize |-> Str(page_size),
                      filter |-> <<"content.contains(\"">> \o Escape(Or(query, S(<<>>)).s) \o <<"\")">>]
                     @@ Field("pageToken", Str(page_token), Truthy(page_token)),
                     outcome)

(***************************************************************************)
(* server.py: the response normalizer.                                     *)
(***************************************************************************)
\* _api_error_json(e)
_api_error_json(e) ==
  IF e.exc = "MemosAPIError" /\ e.status_code # None
  THEN J([error |-> Str(e), status_code |-> e.status_code])
  ELSE J([error |-> Str(e)])

\* _memo_id(memo)
_memo_id(memo) == Or(Get(memo, "name", None), S(Str(Get(memo, "id", S(<<"unknown">>)))))

\* a variant of _memo_creator that reads the nickname only from a note of
\* the legacy shape, one with an id
_memo_creator_ShapeWide(memo) ==
  IF "id" \in DOMAIN memo.f /\ IsDict(Get(memo, "creator", None))
  THEN Get(Get(memo, "creator", None), "nickname", S(<<"Unknown">>))
  ELSE IF Truthy(Get(memo, "creator", None)) /\ ~IsDict(Get(memo, "creator", None))
  THEN S(Str(Get(memo, "creator", None)))
  ELSE S(<<"Unknown">>)

\* _memo_creator(memo)
_memo_creator(memo) ==
  IF IsDict(Get(memo, "creator", None))
  THEN Get(Get(memo, "creator", None), "nickname", S(<<"Unknown">>))
  ELSE IF Truthy(Get(memo, "creator", None)) THEN S(Str(Get(memo, "creator", None)))
  ELSE S(<<"Unknown">>)

\* _memo_created(memo)
_memo_created(memo) == Or(Get(memo, "createTime", None), Get(memo, "createdTs", S(<<>>)))

\* _memo_updated(memo)
_memo_updated(memo) == Or(Get(memo, "updateTime", None), Get(memo, "updatedTs", S(<<>>)))

\* _result_memos(result)
_result_memos(result) == Get(result, "memos", Get(result, "data", L(<<>>)))

\* _result_memo(result)
_result_memo(result) == Get(result, "memo", Get(result, "data", EmptyDict))

\* memo.get("name") or str(memo.get("id", ""))
NameOrId(memo) == Or(Get(memo, "name", None), S(Str(Get(memo, "id", S(<<>>)))))

\* _create_memo_response(memo): the dict, or the AttributeError of .get on a
\* memo that is no dict
_create_memo_response(memo) ==
  IF ~IsDict(memo) THEN NoAttribute(memo, "get")
  ELSE D([name |-> NameOrId(memo),
          createTime |-> _memo_created(memo),
          content |-> Get(memo, "content", S(<<>>))])

\* one step of the comprehension below: the tag t before the names of the rest
TagCons(t, rest) ==
  IF IsRaise(rest) THEN rest
  ELSE IF Truthy(Get(t, "name", None)) THEN L(<<Get(t, "name", S(<<>>))>> \o rest.l)
  ELSE rest

RECURSIVE TagNames(_)
\* [t.get("name", "") for t in raw_tags if t.get("name")]
TagNames(l) ==
  IF l = <<>> THEN L(<<>>)
  ELSE IF ~IsDict(Head(l)) THEN NoAttribute(Head(l), "get")
  ELSE TagCons(Head(l), TagNames(Tail(l)))

\* the tags of _memo_to_json_obj, from memo.get("tags", [])
Tags(raw_tags) ==
  IF ~Truthy(raw_tags) THEN L(<<>>)
  ELSE CASE raw_tags.t = "list" ->
              IF IsDict(raw_tags.l[1]) THEN TagNames(raw_tags.l)
              ELSE L([i \in 1..Len(raw_tags.l) |-> S(Str(raw_tags.l[i]))])
         [] raw_tags.t = "str" -> L([i \in 1..Len(raw_tags.s) |-> S(<<raw_tags.s[i]>>)])
         [] raw_tags.t = "dict" -> Raise("KeyError", <<"0">>, None)
         [] OTHER -> Raise("TypeError", <<"'", TypeName(raw_tags), "' object is not subscriptable">>, None)

\* a variant of JsonObj that copies the raw note and overrides the five fields
JsonObj_Passthrough(memo, tags) ==
  IF IsRaise(tags) THEN tags
  ELSE D([name |-> NameOrId(memo),
          createTime |-> _memo_created(memo),
          updateTime |-> _memo_updated(memo),
          content |-> Get(memo, "content", S(<<>>)),
          tags |-> tags] @@ memo.f)

\* the dict _memo_to_json_obj returns, tags already computed
JsonObj(memo, tags) ==
  IF IsRaise(tags) THEN tags
  ELSE D([name |-> NameOrId(memo),
          createTime |-> _memo_created(memo),
          updateTime |-> _memo_updated(memo),
          content |-> Get(memo, "content", S(<<>>)),
          tags |-> tags])

\* _memo_to_json_obj(memo)
_memo_to_json_obj(memo) ==
  IF ~IsDict(memo) THEN NoAttribute(memo, "get")
  ELSE JsonObj(memo, Tags(Get(memo, "tags", L(<<>>))))

\* one step of the comprehension below: an exception in the first item, or
\* else in the rest, ends it
ItemCons(first, rest) ==
  IF IsRaise(first) THEN first
  ELSE IF IsRaise(rest) THEN rest
  ELSE L(<<first>> \o rest.l)

RECURSIVE ItemsOf(_)
\* [_memo_to_json_obj(m) for m in l], l a sequence
ItemsOf(l) ==
  IF l = <<>> THEN L(<<>>)
  ELSE ItemCons(_memo_to_json_obj(Head(l)), ItemsOf(Tail(l)))

\* [_memo_to_json_obj(m) for m in memos], memos any truthy value: a str or
\* a dict iterates over strs, which have no .get; an int does not iterate
Items(memos) ==
  CASE memos.t = "list" -> ItemsOf(memos.l)
    [] memos.t \in {"str", "dict"} -> NoAttribute(S(<<>>), "get")
    [] OTHER -> Raise("TypeError", <<"'", TypeName(memos), "' object is not iterable">>, None)

(***************************************************************************)
(* server.py: the tool and resource handlers.  Each takes the outcome the  *)
(* upstream gives to the request it sends (if it sends one) and yields     *)
(* [call |-> the memos_client operation called, with its arguments,        *)
(*  req |-> the HTTP request sent or NoRequest, text |-> the str returned].*)
(***************************************************************************)
\* the two except clauses every handler ends with
ExceptText(e) == IF e.exc = "MemosAPIError" THEN _api_error_json(e) ELSE J([error |-> Str(e)])

\* what a handler yields: the client operation it called, the request that
\* call sent and the text the handler returns
Handled(call, req, text) == [call |-> call, req |-> req, text |-> text]

NoMemoInResponse == J([success |-> FALSE, error |-> <<"No memo in response">>])

\* the end of _create_memo: r is _create_memo_response(memo)
CreateOk(r) == IF IsRaise(r) THEN ExceptText(r) ELSE J([success |-> TRUE, memo |-> r])

\* the memo _create_memo looks for in result, a dict
CreatedMemo(result) ==
  IF Get(result, "name", None) # None \/ Get(result, "content", None) # None
  THEN result
  ELSE _result_memo(result)

\* the body of _create_memo after the client call returned or raised ret
CreateText(ret) ==
  IF IsRaise(ret) THEN ExceptText(ret)
  ELSE IF ~IsDict(ret) THEN NoMemoInResponse
  ELSE IF ~Truthy(CreatedMemo(ret)) THEN NoMemoInResponse
  ELSE CreateOk(_create_memo_response(CreatedMemo(ret)))

\* _create_memo around its client call c
CreateHandled(call, c) == Handled(call, c.req, CreateText(c.ret))

\* SimpleMCPServer._create_memo
_create_memo(content, visibility, outcome) ==
  CreateHandled([op |-> "create_memo", content |-> content, visibility |-> visibility],
                create_memo(content, visibility, outcome))

\* the end of _list_memos: items is the list of converted memos
ListOk(items) ==
  IF IsRaise(items) THEN ExceptText(items)
  ELSE J([memos |-> items.l, count |-> Len(items.l)])

\* the middle of _list_memos: memos is _result_memos(result)
ListOf(memos) ==
  IF IsRaise(memos) THEN ExceptText(memos)
  ELSE IF ~Truthy(memos) THEN J([memos |-> <<>>, count |-> 0])
  ELSE ListOk(Items(memos))

\* the body of _list_memos and _get_memos_list_resource after the client
\* call returned or raised ret
ListText(ret) == IF IsRaise(ret) THEN ExceptText(ret) ELSE ListOf(_result_memos(ret))

\* _list_memos and _get_memos_list_resource around their client call c
ListHandled(call, c) == Handled(call, c.req, ListText(c.ret))

\* SimpleMCPServer._list_memos
_list_memos(page, page_size, visibility, tag, outcome) ==
  ListHandled([op |-> "list_memos", page |-> page, page_size |-> page_size,
               visibility |-> visibility, tag |-> tag],
              list_memos(page, page_size, visibility, None, None, tag, outcome))

\* the end of _get_memo: r is _memo_to_json_obj(memo)
GetOk(r) == IF IsRaise(r) THEN ExceptText(r) ELSE J(r)

\* a variant of GetOf without the test for an empty memo
GetOf_Unguarded(memo, memo_name) ==
  IF IsRaise(memo) THEN ExceptText(memo) ELSE GetOk(_memo_to_json_obj(memo))

\* the middle of _get_memo: memo is _result_memo(result)
GetOf(memo, memo_name) ==
  IF IsRaise(memo) THEN ExceptText(memo)
  ELSE IF ~Truthy(memo) THEN J([error |-> <<"Memo ">> \o Repr(memo_name) \o <<" not found.">>])
  ELSE GetOk(_memo_to_json_obj(memo))

\* the body of _get_memo and _get_memo_resource after the client call
\* returned or raised ret
GetText(ret, memo_name) ==
  IF IsRaise(ret) THEN ExceptText(ret) ELSE GetOf(_result_memo(ret), memo_name)

\* _get_memo and _get_memo_resource around their client call c
GetHandled(memo_name, c) ==
  Handled([op |-> "get_memo", memo_name |-> memo_name], c.req, GetText(c.ret, memo_name))

\* SimpleMCPServer._get_memo
_get_memo(memo_name, outcome) == GetHandled(memo_name, get_memo(memo_name, outcome))

\* the body of _update_memo and _delete_memo after the client call returned
\* or raised ret
DoneText(ret, memo_name) ==
  IF IsRaise(ret) THEN ExceptText(ret) ELSE J([success |-> TRUE, memo_name |-> memo_name])

\* _update_memo and _delete_memo around their client call c
DoneHandled(call, c) == Handled(call, c.req, DoneText(c.ret, call.memo_name))

\* SimpleMCPServer._update_memo
_update_memo(memo_name, content, visibility, row_status, outcome) ==
  DoneHandled([op |-> "update_memo", memo_name |-> memo_name, content |-> content,
               visibility |-> visibility, row_status |-> row_status],
              update_memo(memo_name, content, visibility, row_status, outcome))

\* SimpleMCPServer._delete_memo
_delete_memo(memo_name, outcome) ==
  DoneHandled([op |-> "delete_memo", memo_name |-> memo_name], delete_memo(memo_name, outcome))

\* the end of _search_memos: items is the list of converted memos
SearchOk(items, query) ==
  IF IsRaise(items) THEN ExceptText(items)
  ELSE J([memos |-> items.l, count |-> Len(items.l), query |-> query])

\* the middle of _search_memos: memos is _result_memos(result)
SearchOf(memos, query) ==
  IF IsRaise(memos) THEN ExceptText(memos)
  ELSE IF ~Truthy(memos) THEN J([memos |-> <<>>, count |-> 0, query |-> query])
  ELSE SearchOk(Items(memos), query)

\* the body of _search_memos and _search_memos_resource after the client
\* call returned or raised ret
SearchText(ret, query) ==
  IF IsRaise(ret) THEN ExceptText(ret) ELSE SearchOf(_result_memos(ret), query)

\* _search_memos and _search_memos_resource around their client call c
SearchHandled(call, c) == Handled(call, c.req, SearchText(c.ret, call.query))

\* SimpleMCPServer._search_memos
_search_memos(query, page, page_size, outcome) ==
  SearchHandled([op |-> "search_memos", query |-> query, page |-> page, page_size |-> page_size],
                search_memos(query, page, page_size, None, outcome))

\* SimpleMCPServer._get_memo_resource
_get_memo_resource(memo_name, outcome) == GetHandled(memo_name, get_memo(memo_name, outcome))

\* SimpleMCPServer._get_memos_list_resource
_get_memos_list_resource(outcome) ==
  ListHandled([op |-> "list_memos", page_size |-> I(50)],
              list_memos(I(1), I(50), None, None, None, None, outcome))

\* SimpleMCPServer._search_memos_resource
_search_memos_resource(query, outcome) ==
  SearchHandled([op |-> "search_memos", query |-> query, page_size |-> I(20)],
                search_memos(query, I(1), I(20), None, outcome))

(***************************************************************************)
(* server.py: SimpleMCPServer, its registries and its dispatch.            *)
(***************************************************************************)
VARIABLES
  tools,      \* self.tools
  resources,  \* self.resources
  prompts,    \* self.prompts
  pc,         \* where run_stdio is: "input", "upstream", "print" or "stopped"
  message,    \* the parsed request being handled, NoMessage between requests
  sent,       \* the upstream call of the request in hand: the client operation
              \* called, the HTTP request sent and, once it is over, its outcome
  response,   \* the envelope _handle_message returned, NoResponse before that
  stdout,     \* for each envelope printed, the number of the line it answers
  served,     \* for each line consumed and finished, how it ended
  stop,       \* why the loop stopped: "EOFError", "KeyboardInterrupt", or "" while it runs
  settings,   \* utils.config.settings, loaded from the environment at import
  exit_code,  \* the exit code of the process, None while it runs
  arg,        \* a function applied on its own: its name and its argument
  ret,        \* what the successive applications of that function returned
  upstream,   \* an upstream that stores what it is given: its memos, by path segment
  client      \* a client of the server: what it submitted and what it got back

\* the variables the server does not touch
apart == <<arg, ret, upstream, client>>

vars == <<tools, resources, prompts, pc, message, sent, response, stdout, served, stop,
          settings, exit_code, arg, ret, upstream, client>>

\* a str literal of the code that nothing looks inside
Lit(s) == S(<<s>>)

\* SimpleMCPServer._register_tools: name, required and optional properties
\* with their declared defaults, in registration order
_register_tools ==
  << [name |-> "create_memo", required |-> {"content"},
      properties |-> {"content", "visibility"}, default |-> [visibility |-> Lit("PRIVATE")]],
     [name |-> "list_memos", required |-> {},
      properties |-> {"page", "page_size", "visibility", "tag"},
      default |-> [page |-> I(1), page_size |-> I(20)]],
     [name |-> "get_memo", required |-> {"name"}, properties |-> {"name"}, default |-> <<>>],
     [name |-> "update_memo", required |-> {"name"},
      properties |-> {"name", "content", "visibility", "row_status"}, default |-> <<>>],
     [name |-> "delete_memo", required |-> {"name"}, properties |-> {"name"}, default |-> <<>>],
     [name |-> "search_memos", required |-> {"query"},
      properties |-> {"query", "page", "page_size"},
      default |-> [page |-> I(1), page_size |-> I(20)]] >>

\* SimpleMCPServer._register_resources
_register_resources ==
  << [key |-> "memo", uriTemplate |-> "memo://{memo_name}", name |-> "Individual memo"],
     [key |-> "memos_list", uri |-> "memos://list", name |-> "Recent memos list"],
     [key |-> "memos_search", uriTemplate |-> "memos://search/{query}", name |-> "Memos search"] >>

\* SimpleMCPServer._register_prompts
_register_prompts ==
  << [name |-> "memo_summary",
      description |-> "Generate a prompt for summarizing recent memos",
      arguments |-> <<[name |-> "memo_count", default |-> I(5)]>>],
     [name |-> "memo_organization",
      description |-> "Generate a prompt for helping organize memos",
      arguments |-> <<[name |-> "tag"]>>] >>

\* {"content": [{"type": "text", "text": text}]}, and "contents" for a resource
TextPayload(key, text) == key :> <<[type |-> "text", text |-> text]>>

\* no memos_client operation was called
NoCall == [op |-> "none"]

\* a variant of ToolError: the message of the exception alone
ToolError_Bare(tool_name, e) ==
  [call |-> NoCall, req |-> NoRequest, payload |-> TextPayload("content", J([error |-> Str(e)]))]

\* the except clause of handle_tool_call
ToolError(tool_name, e) ==
  [call |-> NoCall, req |-> NoRequest,
   payload |-> TextPayload("content",
                 J([error |-> <<"Error executing ">> \o Str(tool_name) \o <<": ">> \o Str(e)]))]

\* a branch of handle_tool_call that reached its return
ToolResult(h) == [call |-> h.call, req |-> h.req, payload |-> TextPayload("content", h.text)]

\* SimpleMCPServer.handle_tool_call
handle_tool_call(tool_name, arguments, outcome) ==
  CASE tool_name = Lit("create_memo") ->
         LET content == Item(arguments, "content")
         IN IF IsRaise(content) THEN ToolError(tool_name, content)
            ELSE ToolResult(_create_memo(content, Get(arguments, "visibility", Lit("PRIVATE")), outcome))
    [] tool_name = Lit("list_memos") ->
         LET page == Get(arguments, "page", I(1))
         IN IF IsRaise(page) THEN ToolError(tool_name, page)
            ELSE ToolResult(_list_memos(page, Get(arguments, "page_size", I(20)),
                                        Get(arguments, "visibility", None),
                                        Get(arguments, "tag", None), outcome))
    [] tool_name = Lit("get_memo") ->
         LET name == Item(arguments, "name")
         IN IF IsRaise(name) THEN ToolError(tool_name, name)
            ELSE ToolResult(_get_memo(name, outcome))
    [] tool_name = Lit("update_memo") ->
         LET name == Item(arguments, "name")
         IN IF IsRaise(name) THEN ToolError(tool_name, name)
            ELSE ToolResult(_update_memo(name, Get(arguments, "content", None),
                                         Get(arguments, "visibility", None),
                                         Get(arguments, "row_status", None), outcome))
    [] tool_name = Lit("delete_memo") ->
         LET name == Item(arguments, "name")
         IN IF IsRaise(name) THEN ToolError(tool_name, name)
            ELSE ToolResult(_delete_memo(name, outcome))
    [] tool_name = Lit("search_memos") ->
         LET query == Item(arguments, "query")
         IN IF IsRaise(query) THEN ToolError(tool_name, query)
            ELSE ToolResult(_search_memos(query, Get(arguments, "page", I(1)),
                                          Get(arguments, "page_size", I(20)), outcome))
    [] OTHER -> ToolError(tool_name, Raise("ValueError", <<"Unknown tool: ">> \o Str(tool_name), None))

\* the literals handle_resource_read matches a URI against
MemoScheme == <<"m", "e", "m", "o", ":", "/", "/">>
MemosListUri == <<"m", "e", "m", "o", "s", ":", "/", "/", "l", "i", "s", "t">>
MemosSearchPrefix == <<"m", "e", "m", "o", "s", ":", "/", "/", "s", "e", "a", "r", "c", "h", "/">>

\* the except clause of handle_resource_read
ResourceError(uri, e) ==
  [call |-> NoCall, req |-> NoRequest,
   payload |-> TextPayload("contents",
                 J([error |-> <<"Error reading resource ">> \o Str(uri) \o <<": ">> \o Str(e)]))]

\* a branch of handle_resource_read that reached its return
ResourceResult(h) == [call |-> h.call, req |-> h.req, payload |-> TextPayload("contents", h.text)]

\* a variant of handle_resource_read: the list resource matched by prefix
handle_resource_read_ListPrefix(uri, outcome) ==
  IF uri.t # "str" THEN ResourceError(uri, NoAttribute(uri, "startswith"))
  ELSE IF StartsWith(uri.s, MemoScheme)
  THEN ResourceResult(_get_memo_resource(S(Remove(uri.s, MemoScheme)), outcome))
  ELSE IF StartsWith(uri.s, MemosListUri)
  THEN ResourceResult(_get_memos_list_resource(outcome))
  ELSE IF StartsWith(uri.s, MemosSearchPrefix)
  THEN ResourceResult(_search_memos_resource(S(Remove(uri.s, MemosSearchPrefix)), outcome))
  ELSE ResourceError(uri, Raise("ValueError", <<"Unknown resource URI: ">> \o Str(uri), None))

\* SimpleMCPServer.handle_resource_read
handle_resource_read(uri, outcome) ==
  IF uri.t # "str" THEN ResourceError(uri, NoAttribute(uri, "startswith"))
  ELSE IF StartsWith(uri.s, MemoScheme)
  THEN ResourceResult(_get_memo_resource(S(Remove(uri.s, MemoScheme)), outcome))
  ELSE IF uri.s = MemosListUri
  THEN ResourceResult(_get_memos_list_resource(outcome))
  ELSE IF StartsWith(uri.s, MemosSearchPrefix)
  THEN ResourceResult(_search_memos_resource(S(Remove(uri.s, MemosSearchPrefix)), outcome))
  ELSE ResourceError(uri, Raise("ValueError", <<"Unknown resource URI: ">> \o Str(uri), None))

\* SimpleMCPServer._get_prompt_content: the prompt text, or the AttributeError
\* of arguments.get on arguments that are no dict
_get_prompt_content(name, arguments) ==
  CASE name = Lit("memo_summary") ->
         LET memo_count == Get(arguments, "memo_count", I(5))
         IN IF IsRaise(memo_count) THEN memo_count
            ELSE S(<<"Please summarize the most recent ">> \o Str(memo_count)
                   \o <<" memos from my Memos instance. ... Use the list_memos tool ...">>)
    [] name = Lit("memo_organization") ->
         LET tag == Get(arguments, "tag", None)
         IN IF IsRaise(tag) THEN tag
            ELSE IF Truthy(tag)
            THEN S(<<"Help me organize and analyze my memos tagged with '">> \o Str(tag)
                   \o <<"'. ... using the list_memos tool ...">>)
            ELSE S(<<"Help me organize my memos. ... using list_memos ...">>)
    [] OTHER -> S(<<"Unknown prompt: ">> \o Str(name))

\* a variant of PromptLookup: self.prompts.get(name, {"description": ""})
PromptLookup_Default(name) ==
  IF \E i \in 1..Len(prompts) : Lit(prompts[i].name) = name
  THEN D(prompts[CHOOSE i \in 1..Len(prompts) : Lit(prompts[i].name) = name])
  ELSE D([description |-> ""])

\* self.prompts[name]: the descriptor, KeyError for a name that is no key,
\* TypeError for a name that cannot be a key
PromptLookup(name) ==
  IF name.t \in {"list", "dict"}
  THEN Raise("TypeError", <<"unhashable type: '", TypeName(name), "'">>, None)
  ELSE IF \E i \in 1..Len(prompts) : Lit(prompts[i].name) = name
  THEN D(prompts[CHOOSE i \in 1..Len(prompts) : Lit(prompts[i].name) = name])
  ELSE Raise("KeyError", Repr(name), None)

\* a variant of ResultEnvelope: the id not echoed
ResultEnvelope_NullId(id, result) == [jsonrpc |-> "2.0", id |-> None, result |-> result]

\* the result envelope of _handle_message
ResultEnvelope(id, result) == [jsonrpc |-> "2.0", id |-> id, result |-> result]

\* a variant of ErrorEnvelope: the internal-error code whatever the failure
ErrorEnvelope_InternalCode(id, code, msg) ==
  [jsonrpc |-> "2.0", id |-> id, error |-> [code |-> -32603, message |-> msg]]

\* the error envelope of _handle_message
ErrorEnvelope(id, code, msg) == [jsonrpc |-> "2.0", id |-> id, error |-> [code |-> code, message |-> msg]]

\* a variant of InternalError: the id of the request is not echoed
InternalError_NullId(id, e) ==
  [call |-> NoCall, req |-> NoRequest,
   env |-> ErrorEnvelope(None, -32603, <<"Internal error: ">> \o Str(e))]

\* the except clause of _handle_message
InternalError(id, e) ==
  [call |-> NoCall, req |-> NoRequest,
   env |-> ErrorEnvelope(id, -32603, <<"Internal error: ">> \o Str(e))]

\* a branch of _handle_message that makes no upstream call
Local(env) == [call |-> NoCall, req |-> NoRequest, env |-> env]

\* the entry of resources/list for one registered resource
ResourceEntry(r) ==
  [uri |-> IF "uriTemplate" \in DOMAIN r THEN r.uriTemplate ELSE r.uri, name |-> r.name]

InitializeResult ==
  [protocolVersion |-> "2024-11-05",
   capabilities |-> [tools |-> [listChanged |-> TRUE],
                     resources |-> [subscribe |-> FALSE, listChanged |-> TRUE],
                     prompts |-> [listChanged |-> TRUE]],
   serverInfo |-> [name |-> "memos-mcp-server", version |-> "1.0.0"]]

\* return {"jsonrpc": "2.0", "id": message_id, "result": result}, result
\* the payload of r, what handle_tool_call or handle_resource_read returned
Returned(id, r) == [call |-> r.call, req |-> r.req, env |-> ResultEnvelope(id, r.payload)]

\* the tools/call branch
ToolsCall(id, params, outcome) ==
  IF ~IsDict(params) THEN InternalError(id, Get(params, "name", None))
  ELSE Returned(id, handle_tool_call(Get(params, "name", None),
                                     Get(params, "arguments", EmptyDict), outcome))

\* the resources/read branch
ResourcesRead(id, params, outcome) ==
  IF ~IsDict(params) THEN InternalError(id, Get(params, "uri", None))
  ELSE Returned(id, handle_resource_read(Get(params, "uri", None), outcome))

\* the end of the prompts/get branch: prompt is what _get_prompt_content
\* returned or raised, entry is self.prompts[name] or what the lookup raised
PromptResult(id, prompt, entry) ==
  IF IsRaise(prompt) THEN InternalError(id, prompt)
  ELSE IF IsRaise(entry) THEN InternalError(id, entry)
  ELSE Local(ResultEnvelope(id,
         [description |-> entry.f.description,
          messages |-> <<[role |-> "user", content |-> [type |-> "text", text |-> prompt]]>>]))

\* the prompts/get branch
PromptsGet(id, params) ==
  IF ~IsDict(params) THEN InternalError(id, Get(params, "name", None))
  ELSE PromptResult(id, _get_prompt_content(Get(params, "name", None),
                                            Get(params, "arguments", EmptyDict)),
                    PromptLookup(Get(params, "name", None)))

\* the try block of _handle_message
Dispatch(message_id, method, params, outcome) ==
  CASE method = Lit("initialize") -> Local(ResultEnvelope(message_id, InitializeResult))
    [] method = Lit("tools/list") -> Local(ResultEnvelope(message_id, [tools |-> tools]))
    [] method = Lit("tools/call") -> ToolsCall(message_id, params, outcome)
    [] method = Lit("resources/list") ->
         Local(ResultEnvelope(message_id,
           [resources |-> [i \in 1..Len(resources) |-> ResourceEntry(resources[i])]]))
    [] method = Lit("resources/read") -> ResourcesRead(message_id, params, outcome)
    [] method = Lit("prompts/list") -> Local(ResultEnvelope(message_id, [prompts |-> prompts]))
    [] method = Lit("prompts/get") -> PromptsGet(message_id, params)
    [] OTHER -> Local(ErrorEnvelope(message_id, -32601, <<"Method not found: ">> \o Str(method)))

\* a variant of _handle_message: after a request that failed upstream the
\* server answers the next one with an internal error
_handle_message_Sticky(msg, outcome) ==
  IF ~IsDict(msg) THEN Local(NoAttribute(msg, "get"))
  ELSE IF Len(served) > 0 /\ served[Len(served)] = "failed"
  THEN Local(ErrorEnvelope(Get(msg, "id", None), -32603, <<"Internal error: ">>))
  ELSE Dispatch(Get(msg, "id", None), Get(msg, "method", None), Get(msg, "params", EmptyDict), outcome)

\* SimpleMCPServer._handle_message: the envelope returned, with the upstream
\* call made on the way; for a message that is no dict, the AttributeError
\* that message.get raises out of it
_handle_message(msg, outcome) ==
  IF ~IsDict(msg) THEN Local(NoAttribute(msg, "get"))
  ELSE Dispatch(Get(msg, "id", None), Get(msg, "method", None), Get(msg, "params", EmptyDict), outcome)

(***************************************************************************)
(* The inputs: the lines that may arrive on stdin and the outcomes the     *)
(* upstream may give.  A line is the str read by input(): J(v) is the JSON *)
(* text of v, any other str is not JSON.                                   *)
(***************************************************************************)
\* a key left out of a dict under construction
Absent == [t |-> "absent"]
Opt(k, v) == IF v = Absent THEN <<>> ELSE k :> v

NameMemosA == S(<<"m", "e", "m", "o", "s", "/", "a">>)
NameA == S(<<"a">>)

CreateArgs ==
  {D(Opt("content", c) @@ Opt("visibility", v)) :
     c \in {Absent, Lit("hello")}, v \in {Absent, Lit("PUBLIC")}}
ListArgs ==
  {D(Opt("page", p) @@ Opt("page_size", z) @@ Opt("visibility", v) @@ Opt("tag", g)) :
     p \in {Absent, I(2)}, z \in {Absent, I(5)}, v \in {Absent, Lit("PUBLIC")}, g \in {Absent, Lit("work")}}
NameArgs == {D(Opt("name", n)) : n \in {Absent, NameMemosA, NameA, I(5)}}
UpdateArgs ==
  {D(Opt("name", n) @@ Opt("content", c) @@ Opt("visibility", v) @@ Opt("row_status", r)) :
     n \in {Absent, NameMemosA}, c \in {Absent, Lit("new"), S(<<>>), None},
     v \in {Absent, Lit("PUBLIC")}, r \in {Absent, Lit("ARCHIVED")}}
SearchArgs ==
  {D(Opt("query", q) @@ Opt("page", p) @@ Opt("page_size", z)) :
     q \in {Absent, Lit("meeting")}, p \in {Absent, I(2)}, z \in {Absent, I(5)}}

\* arguments left out, or not an object
OddArgs == {Absent, L(<<I(1)>>)}

TOOL_NAMES == <<"create_memo", "list_memos", "get_memo", "update_memo", "delete_memo", "search_memos">>

ArgsFor(tool) ==
  CASE tool = "create_memo" -> CreateArgs
    [] tool = "list_memos" -> ListArgs
    [] tool = "update_memo" -> UpdateArgs
    [] tool = "search_memos" -> SearchArgs
    [] OTHER -> NameArgs

ToolCallParams ==
  UNION {{D(Opt("name", Lit(TOOL_NAMES[i])) @@ Opt("arguments", a)) :
            a \in ArgsFor(TOOL_NAMES[i]) \cup OddArgs} : i \in 1..Len(TOOL_NAMES)}
  \cup {D(Opt("name", Lit("nope"))), D(Opt("arguments", EmptyDict)), None, L(<<>>)}

Uris ==
  {S(MemoScheme \o NameMemosA.s), S(MemoScheme \o NameA.s),
   S(MemosListUri), S(MemosListUri \o <<"X">>),
   S(MemosSearchPrefix \o <<"q">>), S(MemosSearchPrefix \o MemosSearchPrefix \o <<"q">>),
   S(<<"n", "o", "t", "e", "s", ":", "/", "/", "l", "i", "s", "t">>)}

ResourceReadParams == {D(Opt("uri", u)) : u \in Uris \cup {Absent, I(5)}} \cup {L(<<>>)}

PromptGetParams ==
  {D(Opt("name", n) @@ Opt("arguments", a)) :
     n \in {Absent, Lit("memo_summary"), Lit("memo_organization"), Lit("nope"), L(<<>>)},
     a \in {Absent, D([memo_count |-> I(10)]), D([tag |-> Lit("work")]), None}}

Ids == {Absent, I(7)}

Requests ==
  {D(Opt("id", i) @@ Opt("method", m)) :
     i \in Ids,
     m \in {Lit("initialize"), Lit("tools/list"), Lit("resources/list"), Lit("prompts/list"),
            Lit("foo/bar"), Absent, I(5)}}
  \cup {D(Opt("id", i) @@ ("method" :> Lit("tools/call")) @@ Opt("params", p)) :
          i \in Ids, p \in ToolCallParams \cup {Absent}}
  \cup {D(Opt("id", i) @@ ("method" :> Lit("resources/read")) @@ Opt("params", p)) :
          i \in Ids, p \in ResourceReadParams}
  \cup {D(Opt("id", i) @@ ("method" :> Lit("prompts/get")) @@ Opt("params", p)) :
          i \in Ids, p \in PromptGetParams}

\* JSON that is no object
NonObjects == {L(<<>>), Lit("hi"), I(3)}

EmptyLine == S(<<>>)
NotJsonLines == {S(<<" ">>), S(<<"{", "n", "o", "t">>)}

Lines == {EmptyLine} \cup NotJsonLines \cup {J(v) : v \in Requests \cup NonObjects}

\* raw notes of the two upstream generations
NewNote ==
  D([name |-> NameMemosA, content |-> Lit("hello"), createTime |-> Lit("2024-01-01T00:00:00Z"),
     updateTime |-> Lit("2024-01-02T00:00:00Z"), creator |-> Lit("users/1"),
     visibility |-> Lit("PRIVATE"), tags |-> L(<<Lit("work")>>)])
LegacyNote ==
  D([id |-> I(42), content |-> Lit("hello"), createdTs |-> I(100), updatedTs |-> I(200),
     creator |-> D([nickname |-> Lit("bob")]), tags |-> L(<<D([name |-> Lit("work")])>>)])

Bodies ==
  {EmptyDict, D([memos |-> L(<<>>)]), D([data |-> L(<<>>)]), D([memos |-> L(<<NewNote>>)]),
   D([data |-> L(<<LegacyNote, NewNote>>)]), D([memo |-> NewNote]), D([memo |-> EmptyDict]),
   D([data |-> LegacyNote]), D([data |-> EmptyDict]), NewNote, D([data |-> I(5)]), L(<<I(1)>>)}

Outcomes ==
  {Response(b) : b \in Bodies}
  \cup {NotJson, URLError, Timeout, HTTPError(404, TRUE), HTTPError(500, TRUE), HTTPError(404, FALSE)}

\* json.loads(line)
JsonLoads(line) ==
  IF line.t = "json" THEN line.doc
  ELSE Raise("JSONDecodeError", <<"Expecting value">>, None)

(***************************************************************************)
(* SimpleMCPServer.run_stdio: the transport loop.                          *)
(***************************************************************************)
NoMessage == [t |-> "no_message"]
NoResponse == [t |-> "no_response"]
NoOutcome == [kind |-> "none"]
NothingSent == [call |-> NoCall, req |-> NoRequest, outcome |-> NoOutcome]

\* utils/config.py: the placeholders Settings falls back to, and the
\* environments the process may be started in
PlaceholderToken == Lit("your_access_token_here")
PlaceholderUrl == Lit("https://your-memos-instance.com")
Configs ==
  {[memos_access_token |-> t, memos_base_url |-> u] :
     t \in {S(<<>>), PlaceholderToken, Lit("secret")},
     u \in {PlaceholderUrl, Lit("https://memos.example.org")}}

\* a variant of validate_config that looks at the token only
validate_config_TokenOnly(st) ==
  IF ~Truthy(st.memos_access_token) \/ st.memos_access_token = PlaceholderToken
  THEN Raise("ValueError", <<"MEMOS_ACCESS_TOKEN is required. ...">>, None)
  ELSE None

\* Settings.validate_config: None, or the ValueError it raises
validate_config(st) ==
  IF ~Truthy(st.memos_access_token) \/ st.memos_access_token = PlaceholderToken
  THEN Raise("ValueError", <<"MEMOS_ACCESS_TOKEN is required. ...">>, None)
  ELSE IF st.memos_base_url = PlaceholderUrl
  THEN Raise("ValueError", <<"MEMOS_BASE_URL is required. ...">>, None)
  ELSE None

NoArg == [fn |-> "none"]
NoClient == [step |-> "none"]

\* the process before main() runs: no server object yet
ServerOff ==
  /\ tools = <<>>
  /\ resources = <<>>
  /\ prompts = <<>>
  /\ pc = "start"
  /\ message = NoMessage
  /\ sent = NothingSent
  /\ response = NoResponse
  /\ stdout = <<>>
  /\ served = <<>>
  /\ stop = ""
  /\ exit_code = None

\* nothing applied on its own, no storing upstream, no client
ApartIdle ==
  /\ arg = NoArg
  /\ ret = <<>>
  /\ upstream = <<>>
  /\ client = NoClient

Init ==
  /\ settings \in Configs
  /\ ServerOff
  /\ ApartIdle

\* main(): validate_config, then SimpleMCPServer() and run_stdio(); a
\* ValueError of validate_config is reported (on stdout, as plain text that
\* is no envelope) and the process exits with code 1
Main ==
  /\ pc = "start"
  /\ IF IsRaise(validate_config(settings))
     THEN /\ pc' = "failed"
          /\ exit_code' = I(1)
          /\ UNCHANGED <<apart, settings, tools, resources, prompts, message, sent, response,
                         stdout, served, stop>>
     ELSE /\ pc' = "input"
          /\ tools' = _register_tools
          /\ resources' = _register_resources
          /\ prompts' = _register_prompts
          /\ UNCHANGED <<apart, settings, exit_code, message, sent, response, stdout, served, stop>>

\* how a printed envelope reads: a top-level error, a result whose text item
\* holds an error payload, or a plain result
HasErrorPayload(result) ==
  \E key \in {"content", "contents"} :
    /\ key \in DOMAIN result
    /\ "error" \in DOMAIN result[key][1].text.doc
EnvelopeClass(env) ==
  IF "error" \in DOMAIN env THEN "error"
  ELSE IF HasErrorPayload(env.result) THEN "failed"
  ELSE "ok"

\* a variant of Skip: the except clause leaves the loop
Skip_Break(how) ==
  /\ served' = Append(served, how)
  /\ pc' = "stopped"
  /\ UNCHANGED <<apart, settings, exit_code, tools, resources, prompts, message, sent, response, stdout, stop>>

\* a variant of Skip: the line is answered
Skip_Answer(how) ==
  /\ served' = Append(served, how)
  /\ stdout' = Append(stdout, Len(served) + 1)
  /\ UNCHANGED <<apart, settings, exit_code, tools, resources, prompts, pc, message, sent, response, stop>>

\* the line is consumed and the loop is back at input() with nothing printed
Skip(how) ==
  /\ served' = Append(served, how)
  /\ UNCHANGED <<apart, settings, exit_code, tools, resources, prompts, pc, message, sent, response, stdout, stop>>

\* response = self._handle_message(message) for the message just parsed,
\* up to the upstream call r.req when it makes one, and otherwise up to its
\* return, or to the except clause of the loop when it raises
Handle(msg, r) ==
  IF r.req # NoRequest
  THEN /\ pc' = "upstream"
       /\ message' = msg
       /\ sent' = [call |-> r.call, req |-> r.req, outcome |-> NoOutcome]
       /\ UNCHANGED <<apart, settings, exit_code, tools, resources, prompts, response, stdout, served, stop>>
  ELSE IF IsRaise(r.env) THEN Skip("exception")
  ELSE /\ pc' = "print"
       /\ message' = msg
       /\ sent' = [call |-> r.call, req |-> r.req, outcome |-> NoOutcome]
       /\ response' = r.env
       /\ UNCHANGED <<apart, settings, exit_code, tools, resources, prompts, stdout, served, stop>>

\* line = input() returned a line; the loop body runs up to the upstream
\* call, or, when the request makes none, up to print
ReadLine(line) ==
  /\ pc = "input"
  /\ Len(served) < MaxLines
  /\ IF ~Truthy(line) THEN Skip("empty")
     ELSE IF IsRaise(JsonLoads(line)) THEN Skip("invalid_json")
     ELSE Handle(JsonLoads(line), _handle_message(JsonLoads(line), URLError))

\* a variant of UpstreamReturn: the tool called is unregistered on the way
UpstreamReturn_Unregister(outcome) ==
  /\ pc = "upstream"
  /\ response' = _handle_message(message, outcome).env
  /\ sent' = [sent EXCEPT !.outcome = outcome]
  /\ pc' = "print"
  /\ tools' = SelectSeq(tools, LAMBDA tool : Lit(tool.name) # Get(Get(message, "params", EmptyDict), "name", None))
  /\ UNCHANGED <<apart, settings, exit_code, resources, prompts, message, stdout, served, stop>>

\* the upstream call of the request in hand ends with outcome, and
\* _handle_message returns
UpstreamReturn(outcome) ==
  /\ pc = "upstream"
  /\ response' = _handle_message(message, outcome).env
  /\ sent' = [sent EXCEPT !.outcome = outcome]
  /\ pc' = "print"
  /\ UNCHANGED <<apart, settings, exit_code, tools, resources, prompts, message, stdout, served, stop>>

\* a variant of PrintResponse: the envelope is not written
PrintResponse_Silent ==
  /\ pc = "print"
  /\ served' = Append(served, EnvelopeClass(response))
  /\ pc' = "input"
  /\ message' = NoMessage
  /\ sent' = NothingSent
  /\ response' = NoResponse
  /\ UNCHANGED <<apart, settings, exit_code, tools, resources, prompts, stdout, stop>>

\* a variant of PrintResponse: the envelope goes in front of those written
PrintResponse_Prepend ==
  /\ pc = "print"
  /\ stdout' = <<Len(served) + 1>> \o stdout
  /\ served' = Append(served, EnvelopeClass(response))
  /\ pc' = "input"
  /\ message' = NoMessage
  /\ sent' = NothingSent
  /\ response' = NoResponse
  /\ UNCHANGED <<apart, settings, exit_code, tools, resources, prompts, stop>>

\* print(json.dumps(response)), and back to input()
PrintResponse ==
  /\ pc = "print"
  /\ stdout' = Append(stdout, Len(served) + 1)
  /\ served' = Append(served, EnvelopeClass(response))
  /\ pc' = "input"
  /\ message' = NoMessage
  /\ sent' = NothingSent
  /\ response' = NoResponse
  /\ UNCHANGED <<apart, settings, exit_code, tools, resources, prompts, stop>>

\* a variant of EndOfInput: the EOFError is noted and the loop goes on
EndOfInput_Continue ==
  /\ pc = "input"
  /\ stop' = "EOFError"
  /\ UNCHANGED <<apart, settings, tools, resources, prompts, pc, message, sent, response, stdout,
                 served, exit_code>>

\* input() raises EOFError
EndOfInput ==
  /\ pc = "input"
  /\ pc' = "stopped"
  /\ stop' = "EOFError"
  /\ exit_code' = I(0)
  /\ UNCHANGED <<apart, settings, tools, resources, prompts, message, sent, response, stdout, served>>

\* KeyboardInterrupt, wherever the loop is: no except clause below run_stdio
\* catches it, so a request in hand is dropped
Interrupt ==
  /\ pc \in {"input", "upstream", "print"}
  /\ pc' = "stopped"
  /\ stop' = "KeyboardInterrupt"
  /\ served' = IF pc = "input" THEN served ELSE Append(served, "interrupted")
  /\ message' = NoMessage
  /\ sent' = NothingSent
  /\ response' = NoResponse
  /\ exit_code' = I(0)
  /\ UNCHANGED <<apart, settings, tools, resources, prompts, stdout>>

Next ==
  \/ Main
  \/ \E line \in Lines : ReadLine(line)
  \/ \E outcome \in Outcomes : UpstreamReturn(outcome)
  \/ PrintResponse
  \/ EndOfInput
  \/ Interrupt

Spec == Init /\ [][Next]_vars

(***************************************************************************)
(* Functions applied on their own: the identifier normalization of         *)
(* utils/client.py, over every identifier of a small alphabet, applied to  *)
(* its own result again; and _make_request over every upstream outcome.    *)
(***************************************************************************)
\* the characters identifiers are made of: two unreserved ones, the slash,
\* the blank and the percent sign
Alphabet == {"a", "b", "/", " ", "%"}
Words == UNION {[1..n -> Alphabet] : n \in 0..MaxIdLen} \cup {<<"a", "b", "c">>}

\* identifiers bare, with the collection prefix and with the prefix twice;
\* None is what arguments.get gives for a JSON null
Identifiers ==
  {S(w) : w \in Words}
  \cup {S(MEMOS_NAME_PREFIX \o w) : w \in Words}
  \cup {S(MEMOS_NAME_PREFIX \o MEMOS_NAME_PREFIX \o w) : w \in Words}
  \cup {None}

\* raw notes mixing the fields of the two upstream generations, each field
\* absent, there, or there and empty
RawNotes ==
  {D(Opt("name", n) @@ Opt("id", i) @@ Opt("createTime", ct) @@ Opt("createdTs", cs)
     @@ Opt("updateTime", ut) @@ Opt("updatedTs", us) @@ Opt("creator", c) @@ Opt("tags", g)
     @@ ("content" :> Lit("hello"))) :
     n \in {Absent, NameMemosA, S(<<>>)}, i \in {Absent, I(42), I(0)},
     ct \in {Absent, Lit("2024-01-01T00:00:00Z"), S(<<>>)}, cs \in {Absent, I(100), I(0)},
     ut \in {Absent, Lit("2024-01-02T00:00:00Z"), S(<<>>)}, us \in {Absent, I(200)},
     c \in {Absent, Lit("users/1"), S(<<>>), D([nickname |-> Lit("bob")]),
            D([nickname |-> S(<<>>)]), EmptyDict},
     g \in {Absent, L(<<>>), L(<<Lit("work")>>), L(<<D([name |-> Lit("work")])>>),
            L(<<D([name |-> S(<<>>)])>>)}}

\* upstream responses with the list or single-note key of either generation
\* absent, empty, or holding a note
RawResponses ==
  {D(Opt("memos", m) @@ Opt("data", d)) :
     m \in {Absent, L(<<>>), L(<<NewNote>>)}, d \in {Absent, L(<<>>), L(<<LegacyNote>>)}}
  \cup {D(Opt("memo", m) @@ Opt("data", d)) :
          m \in {Absent, EmptyDict, NewNote}, d \in {Absent, EmptyDict, LegacyNote}}

\* a process in which the server is not started
ValidConfig == [memos_access_token |-> Lit("secret"), memos_base_url |-> Lit("https://memos.example.org")]

FunctionsInit ==
  /\ settings = ValidConfig
  /\ ServerOff
  /\ upstream = <<>>
  /\ client = NoClient
  /\ ret = <<>>
  /\ arg \in {[fn |-> "_memo_path_segment", x |-> i] : i \in Identifiers}
            \cup {[fn |-> "_make_request", x |-> o] : o \in Outcomes}
            \cup {[fn |-> f, x |-> n] :
                    f \in {"_memo_to_json_obj", "_memo_id", "_memo_creator"}, n \in RawNotes}
            \cup {[fn |-> f, x |-> r] : f \in {"_result_memos", "_result_memo"}, r \in RawResponses}

\* the state of the server, left alone by the functions
server == <<tools, resources, prompts, pc, message, sent, response, stdout, served, stop,
            settings, exit_code>>

\* _memo_path_segment applied to the identifier, then to its own result
ApplySegment ==
  /\ arg.fn = "_memo_path_segment"
  /\ Len(ret) < MaxApply
  /\ ret' = Append(ret, _memo_path_segment(IF ret = <<>> THEN arg.x ELSE ret[Len(ret)]))
  /\ UNCHANGED <<server, arg, upstream, client>>

\* MemosClient._make_request, the upstream answering with the outcome arg.x
ApplyMakeRequest ==
  /\ arg.fn = "_make_request"
  /\ ret = <<>>
  /\ ret' = <<_make_request("GET", <<"/memos">>, <<>>, <<>>, arg.x).ret>>
  /\ UNCHANGED <<server, arg, upstream, client>>

\* _memo_to_json_obj applied to the raw note arg.x
ApplyMemoToJsonObj ==
  /\ arg.fn = "_memo_to_json_obj"
  /\ ret = <<>>
  /\ ret' = <<_memo_to_json_obj(arg.x)>>
  /\ UNCHANGED <<server, arg, upstream, client>>

\* _memo_id applied to the raw note arg.x
ApplyMemoId ==
  /\ arg.fn = "_memo_id"
  /\ ret = <<>>
  /\ ret' = <<_memo_id(arg.x)>>
  /\ UNCHANGED <<server, arg, upstream, client>>

\* _memo_creator applied to the raw note arg.x
ApplyMemoCreator ==
  /\ arg.fn = "_memo_creator"
  /\ ret = <<>>
  /\ ret' = <<_memo_creator(arg.x)>>
  /\ UNCHANGED <<server, arg, upstream, client>>

\* _result_memos applied to the response arg.x
ApplyResultMemos ==
  /\ arg.fn = "_result_memos"
  /\ ret = <<>>
  /\ ret' = <<_result_memos(arg.x)>>
  /\ UNCHANGED <<server, arg, upstream, client>>

\* _result_memo applied to the response arg.x
ApplyResultMemo ==
  /\ arg.fn = "_result_memo"
  /\ ret = <<>>
  /\ ret' = <<_result_memo(arg.x)>>
  /\ UNCHANGED <<server, arg, upstream, client>>

FunctionsNext ==
  \/ ApplySegment
  \/ ApplyMakeRequest
  \/ ApplyMemoToJsonObj
  \/ ApplyMemoId
  \/ ApplyMemoCreator
  \/ ApplyResultMemos
  \/ ApplyResultMemo

Functions == FunctionsInit /\ [][FunctionsNext]_vars

(***************************************************************************)
(* Properties of the dispatcher and of the transport loop.                 *)
(***************************************************************************)
\* the request in hand, as _handle_message reads it
Method == Get(message, "method", None)
Params == Get(message, "params", EmptyDict)
ToolName == Get(Params, "name", None)
Arguments == Get(Params, "arguments", EmptyDict)
Uri == Get(Params, "uri", None)

KnownMethods ==
  {Lit("initialize"), Lit("tools/list"), Lit("tools/call"), Lit("resources/list"),
   Lit("resources/read"), Lit("prompts/list"), Lit("prompts/get")}
RegisteredTools == {Lit(tools[i].name) : i \in 1..Len(tools)}
RegisteredPrompts == {Lit(prompts[i].name) : i \in 1..Len(prompts)}

\* the descriptor a tool is registered with
Descriptor(tool) == tools[CHOOSE i \in 1..Len(tools) : tools[i].name = tool]

\* sub occurs in s
Contains(s, sub) == \E i \in 1..(Len(s) - Len(sub) + 1) : SubSeq(s, i, i + Len(sub) - 1) = sub

\* a result and no top-level error, and the other way round
ResultOnly(env) == "result" \in DOMAIN env /\ "error" \notin DOMAIN env
ErrorOnly(env) == "error" \in DOMAIN env /\ "result" \notin DOMAIN env

\* result holds exactly one text item, under key
OneTextItem(result, key) ==
  /\ DOMAIN result = {key}
  /\ Len(result[key]) = 1
  /\ result[key][1].type = "text"
  /\ result[key][1].text.t = "json"

\* the JSON object in the text item of a tool or resource result
PayloadDoc(result) ==
  IF "content" \in DOMAIN result THEN result.content[1].text.doc ELSE result.contents[1].text.doc

\* the request in hand is a tools/call, a resources/read or a prompts/get
\* with an object for params, so that routing is reached
ToolsCallInHand == pc \in {"upstream", "print"} /\ Method = Lit("tools/call") /\ IsDict(Params)
ResourcesReadInHand == pc \in {"upstream", "print"} /\ Method = Lit("resources/read") /\ IsDict(Params)
PromptsGetInHand == pc \in {"upstream", "print"} /\ Method = Lit("prompts/get") /\ IsDict(Params)

\* the routing failures: a tool outside the registry, a URI that matches no
\* resource, a prompt outside the registry
UnknownTool == ToolsCallInHand /\ ToolName \notin RegisteredTools
UnmatchedUri ==
  /\ ResourcesReadInHand
  /\ Uri.t = "str"
  /\ ~StartsWith(Uri.s, MemoScheme)
  /\ Uri.s # MemosListUri
  /\ ~StartsWith(Uri.s, MemosSearchPrefix)
UnregisteredPrompt == PromptsGetInHand /\ ToolName \notin RegisteredPrompts

\* the upstream call of the request in hand failed: a non-2xx status, a
\* connection failure or a timeout
UpstreamFailed == sent.outcome.kind \in {"HTTPError", "URLError", "timeout"}

\* env is an envelope for the request msg
EnvelopeFor(msg, env) ==
  /\ DOMAIN env \subseteq {"jsonrpc", "id", "result", "error"}
  /\ env.jsonrpc = "2.0"
  /\ env.id = Get(msg, "id", None)
  /\ ("result" \in DOMAIN env) # ("error" \in DOMAIN env)

\* C1: for every request that is a JSON object, whatever its method, params
\* and the upstream outcome, _handle_message returns (it does not raise) an
\* envelope with jsonrpc "2.0", the id of the request (None when it has
\* none) and exactly one of result and error.
C1_EnvelopeForEveryObject ==
  [][ /\ pc' = "print" => EnvelopeFor(message', response')
      /\ (pc = "input" /\ Len(served') > Len(served) /\ served'[Len(served')] = "exception")
           => \A line \in Lines : ReadLine(line) => ~IsDict(JsonLoads(line)) ]_vars
C1_Witness ==
  /\ pc = "print"
  /\ "id" \notin DOMAIN message.f
  /\ response.id = None
  /\ Method = Lit("tools/call")
  /\ sent.outcome.kind = "HTTPError"
  /\ ResultOnly(response)

\* C2: a method outside the seven known ones, a missing method included, is
\* answered with a top-level error of code -32601 whose message contains the
\* method name, and with no result.
C2_MethodNotFound ==
  (pc = "print" /\ Method \notin KnownMethods)
    => /\ ErrorOnly(response)
       /\ response.error.code = -32601
       /\ Contains(response.error.message, Str(Method))
C2_Witness ==
  /\ pc = "print"
  /\ "method" \notin DOMAIN message.f
  /\ response.error.code = -32601
  /\ response.error.message = <<"Method not found: ", "None">>

Answered == {"error", "failed", "ok"}

\* C4 as stated: after any sequence of input lines, as many envelopes are
\* written as lines were consumed.
C4_OneEnvelopePerLine == stop # "KeyboardInterrupt" => Len(stdout) = Len(served)
\* C4, amended: no line gets more than one envelope, and a line gets one
\* exactly when it parsed as a JSON object and its dispatch returned; an
\* empty line, a line that is not JSON and a line whose JSON is no object
\* get none.
C4_OneEnvelopePerAnsweredLine ==
  /\ \A i \in 1..Len(stdout) : stdout[i] \in 1..Len(served) /\ served[stdout[i]] \in Answered
  /\ \A i, j \in 1..Len(stdout) : i < j => stdout[i] < stdout[j]
  /\ \A k \in 1..Len(served) : served[k] \in Answered => \E i \in 1..Len(stdout) : stdout[i] = k
C4_Witness ==
  /\ Len(served) = 2
  /\ served[1] \in {"empty", "invalid_json", "exception"}
  /\ served[2] \in Answered
  /\ stdout = <<2>>

\* C5: when the upstream call of a tools/call or of a resources/read fails,
\* the envelope carries a result and no top-level error, and the failure is
\* an error payload in the one text item of the result.
C5_UpstreamFailureInResult ==
  (pc = "print" /\ Method \in {Lit("tools/call"), Lit("resources/read")} /\ UpstreamFailed)
    => /\ ResultOnly(response)
       /\ OneTextItem(response.result, IF Method = Lit("tools/call") THEN "content" ELSE "contents")
       /\ "error" \in DOMAIN PayloadDoc(response.result)
       /\ DOMAIN PayloadDoc(response.result) \subseteq {"error", "status_code"}
C5_Witness ==
  /\ pc = "print"
  /\ Method = Lit("resources/read")
  /\ sent.outcome = HTTPError(500, TRUE)
  /\ ResultOnly(response)
  /\ PayloadDoc(response.result).status_code = I(500)

\* C6 as stated: a non-2xx status s gives the tool payload {error,
\* status_code} with status_code = s, and a connection failure gives a
\* payload with error and no status code.
C6_StatusInPayload ==
  (pc = "print" /\ ToolsCallInHand)
    => /\ sent.outcome.kind = "HTTPError"
            => /\ DOMAIN PayloadDoc(response.result) = {"error", "status_code"}
               /\ PayloadDoc(response.result).status_code = I(sent.outcome.code)
       /\ sent.outcome.kind = "URLError" => DOMAIN PayloadDoc(response.result) = {"error"}

C8_HandlersAreTotal ==
  /\ (pc = "print" /\ ToolsCallInHand)
       => (ResultOnly(response) /\ OneTextItem(response.result, "content"))
  /\ (pc = "print" /\ ResourcesReadInHand)
       => (ResultOnly(response) /\ OneTextItem(response.result, "contents"))
  /\ (pc = "print" /\ UnknownTool)
       => /\ Contains(PayloadDoc(response.result).error, <<"Error executing ">> \o Str(ToolName))
          /\ Contains(PayloadDoc(response.result).error, <<"Unknown tool: ">> \o Str(ToolName))
  /\ (pc = "print" /\ UnmatchedUri)
       => /\ Contains(PayloadDoc(response.result).error, <<"Error reading resource ">> \o Str(Uri))
          /\ Contains(PayloadDoc(response.result).error, <<"Unknown resource URI: ">> \o Str(Uri))
C8_Witness ==
  /\ pc = "print"
  /\ UnmatchedUri
  /\ Uri = S(MemosListUri \o <<"X">>)
  /\ OneTextItem(response.result, "contents")
  /\ Contains(PayloadDoc(response.result).error, <<"Unknown resource URI: ">>)

\* the request in hand calls a registered tool with arguments that lack a
\* field the tool requires
MissingRequired ==
  /\ ToolsCallInHand
  /\ IsDict(Arguments)
  /\ \E i \in 1..Len(tools) :
       /\ ToolName = Lit(tools[i].name)
       /\ tools[i].required # {}
       /\ ~(tools[i].required \subseteq DOMAIN Arguments.f)

OnlyRequired(tool) ==
  /\ ToolsCallInHand
  /\ ToolName = Lit(tool)
  /\ IsDict(Arguments)
  /\ DOMAIN Arguments.f = Descriptor(tool).required

\* C10: a tool called with its required fields only hands the client
\* operation the declared default of every optional field left out: create
\* visibility PRIVATE; list page 1, page_size 20, no visibility, no tag;
\* search page 1, page_size 20; update no content, visibility or row_status.
C10_Defaults ==
  /\ OnlyRequired("create_memo")
       => /\ Descriptor("create_memo").default.visibility = Lit("PRIVATE")
          /\ sent.call = [op |-> "create_memo", content |-> Arguments.f.content,
                          visibility |-> Lit("PRIVATE")]
          /\ sent.req.body = J([content |-> Arguments.f.content, visibility |-> Lit("PRIVATE")])
  /\ OnlyRequired("list_memos")
       => /\ Descriptor("list_memos").default = [page |-> I(1), page_size |-> I(20)]
          /\ sent.call = [op |-> "list_memos", page |-> I(1), page_size |-> I(20),
                          visibility |-> None, tag |-> None]
          /\ sent.req.query = [page |-> <<"1">>, pageSize |-> <<"20">>]
  /\ OnlyRequired("search_memos")
       => /\ Descriptor("search_memos").default = [page |-> I(1), page_size |-> I(20)]
          /\ sent.call = [op |-> "search_memos", query |-> Arguments.f.query,
                          page |-> I(1), page_size |-> I(20)]
          /\ sent.req.query.pageSize = <<"20">>
  /\ OnlyRequired("update_memo")
       => /\ sent.call = [op |-> "update_memo", memo_name |-> Arguments.f.name,
                          content |-> None, visibility |-> None, row_status |-> None]
          /\ sent.req.body = None
C10_Witness ==
  /\ pc = "upstream"
  /\ OnlyRequired("list_memos")
  /\ Arguments = EmptyDict
  /\ sent.call.page_size = I(20)
  /\ sent.req.query.pageSize = <<"20">>

(***************************************************************************)
(* A round trip through the tools: handle_tool_call on a server object, as *)
(* the unit tests call it, against an upstream that stores the notes it is *)
(* given.  The upstream names a note memos/<token> (the current API) or    *)
(* numbers it (the legacy API), and answers with the note at top level, as *)
(* _create_memo expects of the current API, or under "memo" or "data".     *)
(***************************************************************************)
MaxMemos == 2
Contents == {Lit("hello"), S(<<"a", " ", "b">>), S(<<>>)}
Shapes == {"flat", "memo", "data"}
Generations == {"new", "legacy"}
MemoTokens == <<"a", "b", "c">>

\* the note the upstream stores for the POST req, as its k-th note
Stored(req, k, gen) ==
  IF gen = "new"
  THEN D([name |-> S(MEMOS_NAME_PREFIX \o <<MemoTokens[k]>>), content |-> req.body.doc.content,
          visibility |-> req.body.doc.visibility, createTime |-> Lit("2024-01-01T00:00:00Z")])
  ELSE D([id |-> I(k), content |-> req.body.doc.content, createdTs |-> I(100)])

\* the body the upstream answers with for a note
Shaped(memo, shape) ==
  CASE shape = "flat" -> memo
    [] shape = "memo" -> D([memo |-> memo])
    [] OTHER -> D([data |-> memo])

\* the path the upstream serves a stored note at
PathOf(memo) ==
  <<"/memos/">> \o (IF "name" \in DOMAIN memo.f
                    THEN Quote(DropFirst(memo.f.name.s, Len(MEMOS_NAME_PREFIX)))
                    ELSE <<ToString(memo.f.id.n)>>)

\* the upstream's answer to GET endpoint
Answer(endpoint, shape) ==
  IF \E i \in 1..Len(upstream) : PathOf(upstream[i]) = endpoint
  THEN Response(Shaped(upstream[CHOOSE i \in 1..Len(upstream) : PathOf(upstream[i]) = endpoint], shape))
  ELSE HTTPError(404, TRUE)

\* the payload of a tool result
TextDoc(r) == r.payload.content[1].text.doc

ServerBuilt ==
  /\ tools = _register_tools
  /\ resources = _register_resources
  /\ prompts = _register_prompts
  /\ pc = "built"
  /\ message = NoMessage
  /\ sent = NothingSent
  /\ response = NoResponse
  /\ stdout = <<>>
  /\ served = <<>>
  /\ stop = ""
  /\ exit_code = None

RoundTripInit ==
  /\ settings = ValidConfig
  /\ ServerBuilt
  /\ arg = NoArg
  /\ ret = <<>>
  /\ upstream = <<>>
  /\ client = NoClient

\* the upstream stores memo and answers the create with it
Create(arguments, shape, memo) ==
  /\ upstream' = Append(upstream, memo)
  /\ client' = [step |-> "created", content |-> arguments.f.content, stored |-> memo,
                shape |-> shape, path |-> <<>>,
                result |-> TextDoc(handle_tool_call(Lit("create_memo"), arguments,
                                                    Response(Shaped(memo, shape))))]

\* tools/call create_memo with content c
TripCreate(c, shape, gen) ==
  /\ client.step = "none"
  /\ Len(upstream) < MaxMemos
  /\ Create(D([content |-> c]), shape,
            Stored(handle_tool_call(Lit("create_memo"), D([content |-> c]), URLError).req,
                   Len(upstream) + 1, gen))
  /\ UNCHANGED <<server, arg, ret>>

\* the upstream answers the GET req
Read(arguments, shape, req) ==
  client' = [step |-> "read", content |-> client.content, stored |-> client.stored,
             shape |-> shape, path |-> req.endpoint,
             result |-> TextDoc(handle_tool_call(Lit("get_memo"), arguments,
                                                 Answer(req.endpoint, shape)))]

\* tools/call get_memo with the identifier the create result returned
TripGet(shape) ==
  /\ client.step = "created"
  /\ client.result.success
  /\ Read(D([name |-> client.result.memo.f.name]), shape,
          handle_tool_call(Lit("get_memo"), D([name |-> client.result.memo.f.name]), URLError).req)
  /\ UNCHANGED <<server, arg, ret, upstream>>

\* the next round trip, with the notes stored so far
TripDone ==
  /\ client.step = "read"
  /\ client' = NoClient
  /\ UNCHANGED <<server, arg, ret, upstream>>

RoundTripNext ==
  \/ \E c \in Contents, shape \in Shapes, gen \in Generations : TripCreate(c, shape, gen)
  \/ \E shape \in Shapes : TripGet(shape)
  \/ TripDone

RoundTrip == RoundTripInit /\ [][RoundTripNext]_vars

(***************************************************************************)
(* Properties of the identifier normalization and of _make_request.        *)
(***************************************************************************)
\* the identifier normalized, and the results of normalizing it once and twice
Normalized(n) == arg.fn = "_memo_path_segment" /\ Len(ret) >= n
Encoded(s) == \E i \in 1..Len(s) : s[i] = "%"

\* C11 as stated: identifier normalization is idempotent for every identifier.
C11_Idempotent == Normalized(2) => ret[2] = ret[1]
\* C11, amended: normalizing twice gives the same as normalizing once
\* exactly for the identifiers whose normalized form holds no percent-encoded
\* character (what remains after trimming and stripping the prefix is made
\* of unreserved characters only); for every other identifier the second
\* application encodes each "%" again, as "%25", and the result differs.
C11_IdempotentOnUnreserved == Normalized(2) => ((ret[2] = ret[1]) <=> ~Encoded(ret[1].s))
C11_Witness ==
  /\ Normalized(2)
  /\ arg.x = S(MEMOS_NAME_PREFIX \o <<"a", "b", "c">>)
  /\ ret = <<S(<<"a", "b", "c">>), S(<<"a", "b", "c">>)>>

\* t has no slash in front and no whitespace around it
Clean(t) == t = <<>> \/ (t[1] \notin {"/", " "} /\ t[Len(t)] # " ")
\* what follows the collection prefix in the identifier normalized
AfterPrefix == DropFirst(arg.x.s, Len(MEMOS_NAME_PREFIX))

\* C12: the collection prefix is stripped exactly once: for every t without
\* leading slash or surrounding whitespace, normalize("memos/" + t) is the
\* percent-encoding of t, so that normalize("memos/abc") = normalize("abc"),
\* while normalize("memos/memos/abc") keeps the inner "memos/", encoded, and
\* the path segment holds no slash.
C12_PrefixStrippedOnce ==
  (Normalized(1) /\ arg.x.t = "str" /\ StartsWith(arg.x.s, MEMOS_NAME_PREFIX) /\ Clean(AfterPrefix))
    => /\ ret[1] = S(Quote(AfterPrefix))
       /\ \A i \in 1..Len(ret[1].s) : ret[1].s[i] # "/"
       /\ ~StartsWith(AfterPrefix, MEMOS_NAME_PREFIX) => ret[1] = _memo_path_segment(S(AfterPrefix))
       /\ StartsWith(AfterPrefix, MEMOS_NAME_PREFIX)
            => StartsWith(ret[1].s, <<"m", "e", "m", "o", "s", "%", "2", "F">>)
C12_Witness ==
  /\ Normalized(1)
  /\ arg.x = S(MEMOS_NAME_PREFIX \o MEMOS_NAME_PREFIX \o <<"a", "b", "c">>)
  /\ ret[1] = S(<<"m", "e", "m", "o", "s", "%", "2", "F", "a", "b", "c">>)

(***************************************************************************)
(* Properties of main and of the transport loop as a whole.                *)
(***************************************************************************)
\* the configuration main() must refuse
BadConfig ==
  \/ settings.memos_access_token \in {S(<<>>), PlaceholderToken}
  \/ settings.memos_base_url = PlaceholderUrl

\* C18: with the access token missing or left at its placeholder, or the
\* base URL left at its placeholder, main exits with code 1 before the
\* transport loop is entered: no line is read and no envelope is written.
C18_FailFast ==
  BadConfig =>
    /\ pc \in {"start", "failed"}
    /\ pc = "failed" => exit_code = I(1)
    /\ message = NoMessage
    /\ served = <<>>
    /\ stdout = <<>>
    /\ tools = <<>>
C18_Witness ==
  /\ pc = "failed"
  /\ exit_code = I(1)
  /\ settings.memos_access_token = Lit("secret")
  /\ settings.memos_base_url = PlaceholderUrl
  /\ stdout = <<>>

\* how a line whose envelope was printed is recorded
Printed == {"ok", "failed", "error"}

\* C16: requests are processed one at a time and in order: the response to
\* a line is on stdout before the next line is read, at most one request is
\* in hand at any time, and the responses are written in the order of the
\* lines they answer.
C16_OneAtATime ==
  /\ \A j \in 1..Len(stdout) : stdout[j] <= Len(served) /\ served[stdout[j]] \in Printed
  /\ \A j, k \in 1..Len(stdout) : j < k => stdout[j] < stdout[k]
  /\ \A i \in 1..Len(served) : served[i] \in Printed => \E j \in 1..Len(stdout) : stdout[j] = i
  /\ message # NoMessage <=> pc \in {"upstream", "print"}
  /\ pc \in {"start", "input"} => sent = NothingSent /\ response = NoResponse
C16_Witness ==
  /\ stdout = <<1>>
  /\ Len(served) = 1
  /\ pc = "upstream"
  /\ message # NoMessage

\* C17 as stated: the loop stops only between requests; it is never stopped
\* with a request read and its response not written.
C17_StopsBetweenRequests ==
  pc = "stopped" => \A i \in 1..Len(served) : served[i] # "interrupted"

\* the names a registry or a list result holds, in order
NamesOf(entries) == [i \in 1..Len(entries) |-> entries[i].name]

\* the capability surface of the server
Surface ==
  /\ NamesOf(tools) = TOOL_NAMES
  /\ Len(tools) = 6
  /\ NamesOf(resources) = <<"Individual memo", "Recent memos list", "Memos search">>
  /\ NamesOf(prompts) = <<"memo_summary", "memo_organization">>
  /\ (pc = "print" /\ Method = Lit("tools/list")) =>
       (Len(response.result.tools) = 6 /\ NamesOf(response.result.tools) = TOOL_NAMES)
  /\ (pc = "print" /\ Method = Lit("resources/list")) =>
       (Len(response.result.resources) = 3
        /\ NamesOf(response.result.resources) = NamesOf(_register_resources))
  /\ (pc = "print" /\ Method = Lit("prompts/list")) =>
       (Len(response.result.prompts) = 2
        /\ NamesOf(response.result.prompts) = NamesOf(_register_prompts))

Called == sent.req # NoRequest

\* the request in hand calls a registered tool with an object for arguments
\* that holds every field the tool requires
WithRequired ==
  /\ ToolsCallInHand
  /\ ToolName \in RegisteredTools
  /\ IsDict(Arguments)
  /\ Descriptor(ToolName.s[1]).required \subseteq DOMAIN Arguments.f
\* ... each of them a string
RequiredAreStrings ==
  \A k \in Descriptor(ToolName.s[1]).required : Arguments.f[k].t = "str"

\* the request in hand reads a URI that matches a resource
MatchedUri ==
  /\ ResourcesReadInHand
  /\ Uri.t = "str"
  /\ \/ StartsWith(Uri.s, MemoScheme)
     \/ Uri.s = MemosListUri
     \/ StartsWith(Uri.s, MemosSearchPrefix)

Listing == pc = "print" /\ sent.call.op \in {"list_memos", "search_memos"}
Searching == pc = "print" /\ sent.call.op = "search_memos"
Payload == PayloadDoc(response.result)

\* the upstream answered with no notes: the list key of either generation
\* empty, or neither key there
ZeroNotes ==
  /\ sent.outcome.kind = "response"
  /\ sent.outcome.body \in {EmptyDict, D([memos |-> L(<<>>)]), D([data |-> L(<<>>)])}

\* the query as the request supplied it: the query argument of the tool, or
\* what follows memos://search/ in the URI
SuppliedQuery ==
  IF Method = Lit("tools/call") THEN Arguments.f.query
  ELSE S(DropFirst(Uri.s, Len(MemosSearchPrefix)))

CountMatches == (Listing /\ "memos" \in DOMAIN Payload) => Payload.count = Len(Payload.memos)
ZeroNotesEmpty ==
  (Listing /\ ZeroNotes) =>
    /\ Payload.memos = <<>>
    /\ Payload.count = 0
    /\ DOMAIN Payload = IF Searching THEN {"memos", "count", "query"} ELSE {"memos", "count"}
QueryEchoed == (Searching /\ "query" \in DOMAIN Payload) => Payload.query = SuppliedQuery

\* C20 as stated: for list and search, tools and resources, count equals the
\* number of notes, zero upstream notes under either shape give an empty
\* list with count 0, and search echoes the query exactly as supplied.
C20_CountAndEcho == CountMatches /\ ZeroNotesEmpty /\ QueryEchoed

(***************************************************************************)
(* Properties of _make_request on its own.                                 *)
(***************************************************************************)
\* _make_request was applied to an upstream outcome that is a failure: an
\* HTTP error status, a connection failure, a timeout, a body that is no JSON
UpstreamFailure ==
  /\ arg.fn = "_make_request"
  /\ ret # <<>>
  /\ arg.x.kind \in {"HTTPError", "URLError", "timeout", "not_json"}

\* a timeout of the upstream call of the request in hand ends as an error
\* payload inside a result
TimeoutIsPayload ==
  (pc = "print" /\ sent.outcome = Timeout) =>
    (ResultOnly(response) /\ "error" \in DOMAIN PayloadDoc(response.result))

\* C19 as stated: every failure of the upstream call leaves _make_request as
\* a MemosAPIError and as no other exception type.
C19_OnlyMemosAPIError ==
  UpstreamFailure => (IsRaise(ret[1]) /\ ret[1].exc = "MemosAPIError")

(***************************************************************************)
(* Properties of the round trip.                                           *)
(***************************************************************************)
\* the get of a round trip returned, the upstream having answered it with the
\* note under "memo" or "data"
ReadBack == client.step = "read"
Wrapped == client.shape \in {"memo", "data"}

\* the get addressed the note just created and returned its content
SameNote ==
  /\ client.path = PathOf(client.stored)
  /\ "error" \notin DOMAIN client.result
  /\ IsDict(client.result)
  /\ DOMAIN client.result.f = {"name", "createTime", "updateTime", "content", "tags"}
  /\ client.result.f.content = client.content
  /\ client.result.f.name = NameOrId(client.stored)

RoundTripWrapped == (ReadBack /\ Wrapped) => SameNote

\* C13 as stated: after a create that succeeded against an upstream that
\* stores what it is given, a get with the identifier of the create result
\* addresses the note just created and returns its content.
C13_RoundTrip == ReadBack => SameNote

(***************************************************************************)
(* Properties of the get results and of the normalizer.                    *)
(***************************************************************************)
\* the request in hand was a get, tool or memo resource, and the upstream
\* answered it with an empty object, bare or under the single-note key
Getting == pc = "print" /\ sent.call.op = "get_memo"
EmptyNote ==
  /\ sent.outcome.kind = "response"
  /\ sent.outcome.body \in {EmptyDict, D([memo |-> EmptyDict]), D([data |-> EmptyDict])}

\* C21: a get, by tool or by memo resource, that the upstream answers with an
\* empty object or with an empty object under the single-note key yields a
\* result, not a top-level error, whose payload is the not-found error alone
\* and no note.
C21_EmptyIsNotFound ==
  (Getting /\ EmptyNote) =>
    /\ ResultOnly(response)
    /\ \E key \in {"content", "contents"} : OneTextItem(response.result, key)
    /\ DOMAIN PayloadDoc(response.result) = {"error"}
    /\ PayloadDoc(response.result).error
         = <<"Memo ">> \o Repr(sent.call.memo_name) \o <<" not found.">>
C21_Witness ==
  /\ Getting
  /\ Method = Lit("resources/read")
  /\ EmptyNote
  /\ sent.outcome.body = D([data |-> EmptyDict])
  /\ PayloadDoc(response.result).error = <<"Memo ", "'", "a", "'", " not found.">>

\* the fields of a note in a list, get or search result, and in a create result
NoteFields == {"name", "createTime", "updateTime", "content", "tags"}
CreatedFields == {"name", "createTime", "content"}
Creating == pc = "print" /\ sent.call.op = "create_memo"

Only(memo, ks) == D([k \in DOMAIN memo.f \cap ks |-> memo.f[k]])

\* a raw note none of whose fields is there and empty
AllFull(memo) ==
  \A k \in DOMAIN memo.f :
    /\ Truthy(memo.f[k])
    /\ memo.f[k] \notin {D([nickname |-> S(<<>>)]), L(<<D([name |-> S(<<>>)])>>)}

\* the new-style value when the note has it, else the legacy one, else the default
Pick(memo, new, legacy, default) ==
  IF new \in DOMAIN memo.f THEN memo.f[new]
  ELSE IF legacy \in DOMAIN memo.f THEN memo.f[legacy]
  ELSE default

\* a function of the normalizer has been applied to a raw note
Applied(fn) == arg.fn = fn /\ ret # <<>>

\* C23: each normalized field depends on the keys of its own field only (the
\* identifier on name/id, the timestamps on createTime/createdTs and
\* updateTime/updatedTs, the creator on creator, the tags on tags), and on a
\* note whose fields are absent or non-empty it is the new-style value when
\* there is one, else the legacy value, else the default: a creator object
\* yields its nickname and tag objects yield their names whatever the other
\* fields look like.
C23_FieldsIndependent ==
  /\ Applied("_memo_to_json_obj") =>
       /\ ret[1].f.name = _memo_to_json_obj(Only(arg.x, {"name", "id"})).f.name
       /\ ret[1].f.createTime
            = _memo_to_json_obj(Only(arg.x, {"createTime", "createdTs"})).f.createTime
       /\ ret[1].f.updateTime
            = _memo_to_json_obj(Only(arg.x, {"updateTime", "updatedTs"})).f.updateTime
       /\ ret[1].f.tags = _memo_to_json_obj(Only(arg.x, {"tags"})).f.tags
       /\ ret[1].f.content = _memo_to_json_obj(Only(arg.x, {"content"})).f.content
       /\ AllFull(arg.x) =>
            /\ ret[1].f.name
                 = (IF "name" \in DOMAIN arg.x.f THEN arg.x.f.name
                    ELSE S(Str(Pick(arg.x, "id", "id", S(<<>>)))))
            /\ ret[1].f.createTime = Pick(arg.x, "createTime", "createdTs", S(<<>>))
            /\ ret[1].f.updateTime = Pick(arg.x, "updateTime", "updatedTs", S(<<>>))
            /\ ret[1].f.tags
                 = (IF "tags" \in DOMAIN arg.x.f THEN L(<<Lit("work")>>) ELSE L(<<>>))
            /\ ret[1].f.content = Lit("hello")
  /\ Applied("_memo_id") =>
       /\ ret[1] = _memo_id(Only(arg.x, {"name", "id"}))
       /\ AllFull(arg.x) =>
            ret[1] = (IF "name" \in DOMAIN arg.x.f THEN arg.x.f.name
                      ELSE S(Str(Pick(arg.x, "id", "id", S(<<"unknown">>)))))
  /\ Applied("_memo_creator") =>
       /\ ret[1] = _memo_creator(Only(arg.x, {"creator"}))
       /\ AllFull(arg.x) =>
            ret[1] = (IF "creator" \notin DOMAIN arg.x.f THEN S(<<"Unknown">>)
                      ELSE IF IsDict(arg.x.f.creator) THEN arg.x.f.creator.f.nickname
                      ELSE arg.x.f.creator)

\* the creator object with a nickname next to a new-style name, timestamps,
\* content and string tags yields the nickname
C23_Witness ==
  /\ Applied("_memo_creator")
  /\ AllFull(arg.x)
  /\ DOMAIN arg.x.f = {"name", "createTime", "updateTime", "creator", "tags", "content"}
  /\ arg.x.f.creator = D([nickname |-> Lit("bob")])
  /\ arg.x.f.tags = L(<<Lit("work")>>)
  /\ ret = <<Lit("bob")>>

\* ---- C24: a field that is there and empty counts as absent ----

\* the dict without its empty entries
NonEmpty(d) == D([k \in {j \in DOMAIN d.f : Truthy(d.f[j])} |-> d.f[k]])

\* the raw note or response without its empty fields, an object field without
\* its empty entries
Drop(d) == D([k \in DOMAIN NonEmpty(d).f |-> IF IsDict(d.f[k]) THEN NonEmpty(d.f[k]) ELSE d.f[k]])

\* the raw note without those of the keys ks that are there and empty
DropOf(memo, ks) ==
  D([k \in {j \in DOMAIN memo.f : j \in ks => Truthy(memo.f[j])} |-> memo.f[k]])

\* some function of the normalizer has been applied
Resolved ==
  /\ arg.fn \in {"_memo_to_json_obj", "_memo_id", "_memo_creator", "_result_memos", "_result_memo"}
  /\ ret # <<>>

\* the function of the normalizer that arg names, applied to x
Resolve(x) ==
  CASE arg.fn = "_memo_to_json_obj" -> _memo_to_json_obj(x)
    [] arg.fn = "_memo_id" -> _memo_id(x)
    [] arg.fn = "_memo_creator" -> _memo_creator(x)
    [] arg.fn = "_result_memos" -> _result_memos(x)
    [] arg.fn = "_result_memo" -> _result_memo(x)

\* C24: the identifier, the timestamps, the creator and the list and
\* single-note response keys are resolved as if every field that is there and
\* empty (empty string, zero, empty list, empty object, empty nickname) were
\* absent: the result is that of the input without its empty fields.
C24_FalsyIsAbsent == Resolved => ret[1] = Resolve(Drop(arg.x))

\* what holds of it: an empty new-style name, createTime, updateTime or
\* creator is resolved as if the key were absent
FalsyNewStyleIsAbsent ==
  (Resolved /\ arg.fn \in {"_memo_to_json_obj", "_memo_id", "_memo_creator"}) =>
    ret[1] = Resolve(DropOf(arg.x, {"name", "createTime", "updateTime", "creator"}))

\* an empty new-style name beside a legacy id has been resolved to the id
FalsyNewStyleSeen ==
  /\ Applied("_memo_id")
  /\ "name" \in DOMAIN arg.x.f /\ arg.x.f.name = S(<<>>)
  /\ "id" \in DOMAIN arg.x.f /\ arg.x.f.id = I(42)
  /\ ret = <<S(<<"42">>)>>

\* the empty nickname came back as the creator
EmptyNicknameKept ==
  /\ Applied("_memo_creator")
  /\ "creator" \in DOMAIN arg.x.f /\ arg.x.f.creator = D([nickname |-> S(<<>>)])
  /\ ret = <<S(<<>>)>>

\* the empty new-style list hid the notes under the legacy key
EmptyKeyKept ==
  /\ Applied("_result_memos")
  /\ arg.x = D([memos |-> L(<<>>), data |-> L(<<LegacyNote>>)])
  /\ ret = <<L(<<>>)>>

(***************************************************************************)
(* Replay: one request, with the response its upstream call gets, is       *)
(* dispatched at two moments of a session, other lines being served in     *)
(* between.                                                                *)
(***************************************************************************)
\* the requests dispatched twice
ReplayRequests ==
  {D([id |-> I(7), method |-> Lit(m)]) : m \in {"initialize", "tools/list", "foo/bar"}}
  \cup {D([id |-> I(7), method |-> Lit("tools/call"),
           params |-> D([name |-> Lit(n), arguments |-> D([name |-> NameMemosA])])]) :
          n \in {"get_memo", "delete_memo", "nope"}}
  \cup {D([id |-> I(7), method |-> Lit("resources/read"), params |-> D([uri |-> S(MemosListUri)])])}
  \cup {D([id |-> I(7), method |-> Lit("prompts/get"), params |-> D([name |-> Lit(n)])]) :
          n \in {"memo_summary", "nope"}}

\* what the upstream answers them
ReplayOutcomes ==
  {Response(D([memo |-> NewNote])), Response(D([memos |-> L(<<NewNote>>)])), HTTPError(404, TRUE), Timeout}

\* the lines served in between
ReplayLines ==
  {EmptyLine, S(<<"{", "n", "o", "t">>), J(L(<<>>)),
   J(D([id |-> I(7), method |-> Lit("tools/list")])),
   J(D([method |-> Lit("foo/bar")])),
   J(D([id |-> I(7), method |-> Lit("prompts/get"), params |-> D([name |-> Lit("nope")])])),
   J(D([id |-> I(7), method |-> Lit("tools/call"),
        params |-> D([name |-> Lit("get_memo"), arguments |-> D([name |-> NameMemosA])])])),
   J(D([id |-> I(7), method |-> Lit("tools/call"),
        params |-> D([name |-> Lit("delete_memo"), arguments |-> EmptyDict])]))}

ReplayInit ==
  /\ settings = ValidConfig
  /\ ServerOff
  /\ arg \in {[fn |-> "_handle_message", x |-> m, outcome |-> o] :
                m \in ReplayRequests, o \in ReplayOutcomes}
  /\ ret = <<>>
  /\ upstream = <<>>
  /\ client = NoClient

\* self._handle_message(arg.x), its upstream call answered with arg.outcome,
\* between two lines of the session; ret keeps the envelope with the lines
\* served before it
Replayed ==
  /\ pc = "input"
  /\ Len(ret) < MaxApply
  /\ IF ret = <<>> THEN TRUE ELSE ret[Len(ret)].at # served
  /\ ret' = Append(ret, [at |-> served, env |-> _handle_message(arg.x, arg.outcome).env])
  /\ UNCHANGED <<server, arg, upstream, client>>

ReplayNext ==
  \/ Main
  \/ \E line \in ReplayLines : ReadLine(line)
  \/ \E outcome \in Outcomes : UpstreamReturn(outcome)
  \/ PrintResponse
  \/ Replayed

Replay == ReplayInit /\ [][ReplayNext]_vars

\* ---- C25: the envelope depends on the request and the upstream response only ----

UriAnswered == pc = "print" /\ ResourcesReadInHand /\ Uri.t = "str"

\* the URI starts like one of the three resources
PrefixedUri ==
  \E p \in {MemoScheme, MemosListUri, MemosSearchPrefix} : StartsWith(Uri.s, p)

\* the answer says the resource is unknown
UnknownResource ==
  /\ ResultOnly(response)
  /\ OneTextItem(response.result, "contents")
  /\ "error" \in DOMAIN PayloadDoc(response.result)
  /\ PayloadDoc(response.result).error
       = <<"Error reading resource ">> \o Str(Uri) \o <<": ", "Unknown resource URI: ">> \o Str(Uri)

\* C26 as stated: each of the three resources is matched by prefix, and a
\* URI is unknown only when it has none of the three prefixes.
C26_PrefixForAll == UriAnswered => (UnknownResource <=> ~PrefixedUri)

\* C26, amended: memo:// and memos://search/ are matched by prefix and
\* memos://list by equality; a URI is unknown exactly when it neither starts
\* with memo:// or memos://search/ nor equals memos://list, and a matched one
\* is read through the call of its resource.
C26_PrefixOrExact ==
  UriAnswered =>
    /\ UnknownResource <=> ~MatchedUri
    /\ StartsWith(Uri.s, MemoScheme) => sent.call.op = "get_memo"
    /\ Uri.s = MemosListUri => sent.call.op = "list_memos"
    /\ StartsWith(Uri.s, MemosSearchPrefix) => sent.call.op = "search_memos"
    /\ UnknownResource => sent.call = NoCall

\* memos://listX has been answered as an unknown resource
C26_Witness ==
  /\ UriAnswered
  /\ Uri = S(MemosListUri \o <<"X">>)
  /\ PrefixedUri
  /\ UnknownResource

\* ---- C27: an exception of the dispatch is an internal error ----

\* the request in hand makes the try block of _handle_message raise: params
\* that are no object where the branch reads them, a prompt that is not
\* registered, or arguments that are no object for a registered prompt
DispatchRaises ==
  \/ Method \in {Lit("tools/call"), Lit("resources/read"), Lit("prompts/get")} /\ ~IsDict(Params)
  \/ PromptsGetInHand /\ ToolName \notin RegisteredPrompts
  \/ PromptsGetInHand /\ ToolName \in RegisteredPrompts /\ ~IsDict(Arguments)

\* the code of the top-level error of env, 0 when it has none
ErrorCode(env) == IF "error" \in DOMAIN env THEN env.error.code ELSE 0

\* C27: a request whose dispatch raises inside _handle_message is answered
\* with an envelope that holds a top-level error of code -32603, the id of
\* the request and no result; code -32603 is used for no other request, and
\* code -32601 exactly for a method that is none of the seven known ones.
C27_InternalError ==
  pc = "print" =>
    /\ DispatchRaises <=> ErrorCode(response) = -32603
    /\ DispatchRaises =>
         /\ DOMAIN response = {"jsonrpc", "id", "error"}
         /\ response.id = Get(message, "id", None)
         /\ SubSeq(response.error.message, 1, 1) = <<"Internal error: ">>
    /\ Method \notin KnownMethods <=> ErrorCode(response) = -32601
    /\ ErrorCode(response) \in {0, -32601, -32603}

\* prompts/get of a prompt that is not registered, answered with -32603 and
\* the id of the request
C27_Witness ==
  /\ pc = "print"
  /\ PromptsGetInHand
  /\ ToolName = Lit("nope")
  /\ ErrorOnly(response)
  /\ response.error.code = -32603
  /\ response.id = I(7)

\* ---- C29: update sends the fields supplied and no other ----

\* an update_memo call whose request has been sent
Updating == pc \in {"upstream", "print"} /\ sent.call.op = "update_memo" /\ sent.req # NoRequest

\* the caller gave the argument k a value
Supplied(k) == k \in DOMAIN Arguments.f /\ Arguments.f[k] # None

\* the key of the request body that carries the argument k
BodyKey(k) == IF k = "row_status" THEN "rowStatus" ELSE k

\* the arguments of update_memo that go into the body
Updatable == {"content", "visibility", "row_status"}

\* C29: update_memo sends one PATCH to the note's path whose body holds the
\* fields among content, visibility and row_status that the caller supplied,
\* each with the value supplied (an empty string included), and no field the
\* caller left out; with no field supplied the request has no body.  When
\* the upstream answers, the result is {success: true, memo_name: name}, the
\* name being the argument as supplied and not the path it was sent to.
C29_PartialUpdate ==
  Updating =>
    /\ sent.req.method = "PATCH"
    /\ IF \E k \in Updatable : Supplied(k)
       THEN /\ sent.req.body.t = "json"
            /\ DOMAIN sent.req.body.doc = {BodyKey(k) : k \in {j \in Updatable : Supplied(j)}}
            /\ \A k \in Updatable : Supplied(k) => sent.req.body.doc[BodyKey(k)] = Arguments.f[k]
       ELSE sent.req.body = None
    /\ (pc = "print" /\ sent.outcome.kind = "response") =>
         /\ ResultOnly(response)
         /\ OneTextItem(response.result, "content")
         /\ PayloadDoc(response.result) = [success |-> TRUE, memo_name |-> Arguments.f.name]

\* an update of memos/a with the empty content and nothing else, answered
C29_Witness ==
  /\ Updating
  /\ pc = "print"
  /\ sent.outcome.kind = "response"
  /\ Arguments = D([name |-> NameMemosA, content |-> S(<<>>)])
  /\ sent.req.endpoint = <<"/memos/", "a">>
  /\ sent.req.body = J([content |-> S(<<>>)])
  /\ PayloadDoc(response.result).memo_name = NameMemosA

\* ---- C30: lines that are empty or no JSON object ----

\* the empty line and the lines that are JSON but no object
NoObjectLines == {EmptyLine} \cup {J(v) : v \in NonObjects}

\* C30: reading a line that is empty, or that is JSON but no object (a
\* list, a string, a number), writes no envelope and makes no upstream call:
\* the line is consumed and the loop is at input() again, with the server as
\* it was, so that the next line is served as any other.
C30_NoObjectLineSkipped ==
  [][\A line \in NoObjectLines :
       ReadLine(line) =>
         /\ pc' = "input"
         /\ stdout' = stdout
         /\ sent' = NothingSent
         /\ response' = NoResponse
         /\ Len(served') = Len(served) + 1
         /\ served'[Len(served')] \in {"empty", "exception"}
         /\ UNCHANGED <<tools, resources, prompts, settings, stop, exit_code>>]_vars

\* a line that is JSON but no object was skipped and the request after it
\* answered
C30_Witness ==
  /\ pc = "input"
  /\ served = <<"exception", "ok">>
  /\ stdout = <<2>>

(***************************************************************************)
(* Live: the loop with its progress conditions.  The process is one        *)
(* thread, so a step that can be taken is taken: main() runs, input() on a *)
(* finite input returns a line or raises EOFError, and print returns.  An  *)
(* upstream call returns or times out (urlopen is given a timeout): the    *)
(* loop is not at the upstream call forever.                               *)
(* Nothing obliges an interrupt to come.  The lines are those of Replay:   *)
(* one of each way a line can go through the loop.                         *)
(***************************************************************************)
LiveNext ==
  \/ Main
  \/ \E line \in ReplayLines : ReadLine(line)
  \/ \E outcome \in Outcomes : UpstreamReturn(outcome)
  \/ PrintResponse
  \/ EndOfInput
  \/ Interrupt

Live ==
  /\ Init
  /\ [][LiveNext]_vars
  /\ WF_vars(Main)
  /\ WF_vars((\E line \in ReplayLines : ReadLine(line)) \/ EndOfInput)
  /\ WF_vars(PrintResponse)
  /\ []<>(pc # "upstream")

\* ---- C28: the loop ends at end-of-input ----

\* the process is over: the loop has stopped and main() has returned
Exited == pc = "stopped" /\ exit_code = I(0)

====
